---- MODULE Spec2Model ----
(***************************************************************************)
(* Agent lifecycle engine of agent_swarm (cli/src/agent_swarm/agents.py):  *)
(* the AgentManager registry, its AgentProcess records, their on-disk      *)
(* metadata and output logs, and the operating-system processes they       *)
(* track.  The coordinator is a single-threaded asyncio program: every     *)
(* registry operation runs atomically except stop(), which suspends once   *)
(* in asyncio.sleep(2).  The children run concurrently with it: they       *)
(* append lines to their logs and exit on their own.                       *)
(***************************************************************************)
EXTENDS Naturals, Integers, Sequences, FiniteSets, TLC

(***************************************************************************)
(* Bounds of the model.                                                    *)
(***************************************************************************)
MaxIds == 1          \* agent ids that uuid4() hands out: 1..MaxIds
MaxConcurrent == 1   \* AgentManager(max_concurrent=...)
MaxAgents == 0       \* AgentManager(max_agents=...)
MaxLog == 1          \* lines the children write to their logs, in total
MaxStops == 2        \* stop() calls suspended in asyncio.sleep at a time
MaxPrompt == 7     \* characters of a prompt that is scanned for the flag
MaxArg == 5        \* characters of a prompt that is put into a command
MaxBlocks == 3     \* content blocks of an assistant payload
MaxEvents == 3     \* events of a summarized sequence
MaxStream == 11    \* events of a stream that is summarized over and over
MaxTail == 2         \* lines of the log that SpecTail lets a child write

\* the id of a record that an earlier coordinator has left in the storage
\* root, and all the ids there are
Left == MaxIds + 1
Ids == 1..Left

(***************************************************************************)
(* AgentStatus and AgentType.                                              *)
(***************************************************************************)
RUNNING == "running"
COMPLETED == "completed"
FAILED == "failed"
STOPPED == "stopped"
AgentStatus == {RUNNING, COMPLETED, FAILED, STOPPED}
Terminal == {COMPLETED, FAILED, STOPPED}

AgentTypes == {"codex", "cursor", "gemini", "claude"}
SpawnTypes == {"cursor"}     \* the agent types the spawn calls of the model ask for

None == 0            \* Python's None for a pid and for completed_at
NoCode == 0 - 1      \* the None that _reap_process returns for "no exit code"
NoObj == [agent_id |-> 0]
NoMeta == [agent_id |-> 0]

VARIABLES
    agents,      \* AgentManager._agents: id -> AgentProcess object, or NoObj
    detached,    \* objects dropped from _agents that a suspended stop() still holds
    stopping,    \* id -> number of stop() calls suspended on agents[id]
    stoppingDet, \* id -> number of stop() calls suspended on detached[id]
    dir,         \* id -> the directory agents_dir/id exists
    meta,        \* id -> the content of meta.json, or NoMeta
    logf,        \* id -> the file stdout.log exists in the directory
    out,         \* id -> the lines the child has appended to its stdout
    proc,        \* id -> the OS process with pid id: [st, code, child]
    nextId,      \* the next id uuid4() returns
    ret          \* the spawn() or stop() call that ran last and its result

vars == <<agents, detached, stopping, stoppingDet, dir, meta, logf, out,
          proc, nextId, ret>>

(***************************************************************************)
(* The process table.  A child of the coordinator that has exited stays in *)
(* the table as a zombie until the coordinator waits for it; a process the *)
(* coordinator inherited from an earlier run is not its child and leaves   *)
(* the table when it exits.  os.kill(pid, 0) and os.getpgid succeed for    *)
(* every pid in the table, zombies included.                               *)
(***************************************************************************)
NoProc == [st |-> "none", code |-> 0, child |-> FALSE]
proc_none == [i \in Ids |-> NoProc]

\* the process p once it has left the process table; code remembers the
\* exit code it had
Gone(p) == [st |-> "gone", code |-> p.code, child |-> FALSE]
ExitCodes == {0, 1}

\* AgentProcess.is_process_alive: os.kill(pid, 0) raises no OSError
is_process_alive(o, P) ==
    /\ o.pid # None
    /\ P[o.pid].st \in {"live", "zombie"}

\* AgentProcess._reap_process: os.waitpid(pid, WNOHANG) -> exit code or None
\* (ChildProcessError once the child was waited for; 0 while it still runs)
reap_code(o, P) ==
    IF o.pid = None THEN NoCode
    ELSE IF P[o.pid].st = "zombie" THEN P[o.pid].code
    ELSE NoCode

\* the process table after _reap_process: a zombie leaves the table
reap_proc(o, P) ==
    IF o.pid # None /\ P[o.pid].st = "zombie"
    THEN [P EXCEPT ![o.pid] = Gone(@)]
    ELSE P

\* subprocess.Popen() first waits for the exited children of earlier Popen
\* objects (subprocess._cleanup), so every zombie leaves the table
popen_cleanup(P) ==
    [i \in Ids |-> IF P[i].st = "zombie" THEN Gone(P[i]) ELSE P[i]]

(***************************************************************************)
(* parsers.normalize_events on the payloads the children of the model      *)
(* write.  A canonical event is kept as its type and its status field.     *)
(***************************************************************************)
\* the payloads a child of the model writes: a message and a final result
RawLines == {"assistant", "result.error"}

Event(t, s) == [type |-> t, status |-> s, content |-> ""]

\* the lines of a log that are no payload: a blank line, a line that is
\* not JSON, and a line that is JSON but no object (a number)
BlankLine == ""
NotJson == "not json"
NonObject == "42"
OddLines == {BlankLine, NotJson, NonObject}

\* the event _read_new_events appends for a line json.loads rejects
RawEvent(line) == [type |-> "raw", status |-> "none", content |-> line]

\* the "type" and "subtype" keys of a payload
raw_type(raw) ==
    IF raw \in {"result.success", "result.error"} THEN "result" ELSE raw
raw_subtype(raw) ==
    IF raw = "result.success" THEN "success"
    ELSE IF raw = "result.error" THEN "error" ELSE "none"

normalize_codex(raw) ==
    IF raw_type(raw) = "turn.completed"
    THEN <<Event("result", "success")>>
    ELSE <<Event(raw_type(raw), "none")>>          \* default passthrough

normalize_cursor(raw) ==
    IF raw_type(raw) = "assistant"
    THEN <<Event("message", "none")>>
    ELSE IF raw_type(raw) = "result"
    THEN <<Event("result", IF raw_subtype(raw) = "none" THEN "success"
                           ELSE raw_subtype(raw))>>
    ELSE <<Event(raw_type(raw), "none")>>          \* default passthrough

normalize_events(agent_type, raw) ==
    IF agent_type = "codex" THEN normalize_codex(raw)
    ELSE normalize_cursor(raw)

(***************************************************************************)
(* AgentProcess.  A timestamp is the value of the clock when it was taken; *)
(* the clock of an operation starts at the latest timestamp there is.      *)
(***************************************************************************)
NewAgent(id, typ) ==
    [agent_id |-> id, agent_type |-> typ, prompt |-> "fix the bug", cwd |-> "none",
     yolo |-> FALSE, pid |-> None,
     status |-> RUNNING, completed_at |-> None, events_cache |-> <<>>,
     last_read_pos |-> 0]

\* variant: a completion check that sets the status and leaves the
\* completion timestamp alone
check_completion_mut(oc, event) ==
    IF event.type = "result" /\ event.status = "error"
    THEN [oc EXCEPT !.o.status = FAILED]
    ELSE oc

\* the completion check of _read_new_events on one canonical event;
\* oc is the pair [o |-> object, c |-> clock]
check_completion(oc, event) ==
    IF event.type \in {"result", "turn.completed", "thread.completed"}
    THEN IF event.status = "success" \/ event.type = "turn.completed"
         THEN [o |-> [oc.o EXCEPT !.status = COMPLETED, !.completed_at = oc.c + 1],
               c |-> oc.c + 1]
         ELSE IF event.status = "error"
         THEN [o |-> [oc.o EXCEPT !.status = FAILED, !.completed_at = oc.c + 1],
               c |-> oc.c + 1]
         ELSE oc
    ELSE oc

RECURSIVE append_events(_, _)
append_events(oc, events) ==
    IF events = <<>> THEN oc
    ELSE append_events(
           check_completion(
             [oc EXCEPT !.o.events_cache = Append(@, Head(events))],
             Head(events)),
           Tail(events))

\* the loop of _read_new_events over the lines read: a blank line is
\* skipped, a line that is not JSON gives a raw event, and on a line that
\* is JSON but no object normalize_events raises AttributeError, which the
\* outer except catches: the loop ends there
RECURSIVE read_lines(_, _)
read_lines(oc, lines) ==
    IF lines = <<>> THEN oc
    ELSE IF Head(lines) = BlankLine THEN read_lines(oc, Tail(lines))
    ELSE IF Head(lines) = NotJson
    THEN read_lines([oc EXCEPT !.o.events_cache = Append(@, RawEvent(Head(lines)))],
                    Tail(lines))
    ELSE IF Head(lines) = NonObject THEN oc
    ELSE read_lines(append_events(oc, normalize_events(oc.o.agent_type, Head(lines))),
                    Tail(lines))

\* variant: a reader that keeps the length of what it has just read as
\* its offset
read_new_events_mut(oc, L, O) ==
    LET id == oc.o.agent_id IN
    IF ~L[id] THEN oc
    ELSE read_lines([oc EXCEPT !.o.last_read_pos = Len(O[id]) - oc.o.last_read_pos],
                    SubSeq(O[id], oc.o.last_read_pos + 1, Len(O[id])))

\* AgentProcess._read_new_events: tail stdout.log from _last_read_pos
read_new_events(oc, L, O) ==
    LET id == oc.o.agent_id IN
    IF ~L[id] THEN oc
    ELSE read_lines([oc EXCEPT !.o.last_read_pos = Len(O[id])],
                    SubSeq(O[id], oc.o.last_read_pos + 1, Len(O[id])))

\* the mode property of AgentProcess
agent_mode(o) == IF o.yolo THEN "yolo" ELSE "safe"

\* variant: a metadata file that always names the safe mode
meta_of_mut(o) ==
    [agent_id |-> o.agent_id, agent_type |-> o.agent_type, prompt |-> o.prompt,
     cwd |-> o.cwd, yolo |-> FALSE, mode |-> "safe",
     pid |-> o.pid, status |-> o.status, completed_at |-> o.completed_at]

\* the dictionary AgentProcess.save_meta writes to meta.json
meta_of(o) ==
    [agent_id |-> o.agent_id, agent_type |-> o.agent_type, prompt |-> o.prompt,
     cwd |-> o.cwd, yolo |-> o.yolo, mode |-> agent_mode(o),
     pid |-> o.pid, status |-> o.status, completed_at |-> o.completed_at]

\* AgentProcess.load_from_disk: a new object from meta.json; every file
\* that save_meta wrote has the key "yolo", so the fallback to the key
\* "mode" is never taken
load_from_disk(m) ==
    [agent_id |-> m.agent_id, agent_type |-> m.agent_type, prompt |-> m.prompt,
     cwd |-> m.cwd, yolo |-> m.yolo,
     pid |-> m.pid, status |-> m.status, completed_at |-> m.completed_at,
     events_cache |-> <<>>, last_read_pos |-> 0]

\* the status inferred from the exit code when no completion event was seen
infer_status(exit_code) ==
    IF exit_code \notin {NoCode, 0} THEN FAILED ELSE COMPLETED

\* variant: a reconciliation that infers the status from the exit code
\* whatever the log has told
reconcile_mut(r, exit_code) ==
    [o |-> [r.o EXCEPT !.status = infer_status(exit_code),
                       !.completed_at = r.c + 1],
     c |-> r.c + 1]

\* update_status_from_process once the log is drained into r = [o, c]:
\* the exit code decides only if the record is still Running
reconcile(r, exit_code) ==
    IF r.o.status = RUNNING
    THEN [o |-> [r.o EXCEPT !.status = infer_status(exit_code),
                            !.completed_at = r.c + 1],
          c |-> r.c + 1]
    ELSE IF r.o.completed_at = None
    THEN [o |-> [r.o EXCEPT !.completed_at = r.c + 1], c |-> r.c + 1]
    ELSE r

\* self.save_meta() of the record t = [o, c] on the disk of s
saved(s, t) ==
    [o |-> t.o, c |-> t.c,
     d |-> [s.d EXCEPT ![t.o.agent_id] = TRUE],
     m |-> [s.m EXCEPT ![t.o.agent_id] = meta_of(t.o)]]

\* AgentProcess.update_status_from_process on the state
\* s = [o |-> object, c |-> clock, d |-> dir, m |-> meta]
update_status_from_process(s, L, O, P) ==
    IF s.o.pid = None \/ is_process_alive(s.o, P) THEN s
    ELSE saved(s, reconcile(read_new_events([o |-> s.o, c |-> s.c], L, O),
                            reap_code(s.o, P)))


(***************************************************************************)
(* AgentManager.  A registry state is g = [a |-> _agents, c |-> clock,     *)
(* d |-> dir, m |-> meta].                                                 *)
(***************************************************************************)
Tracked(A) == {i \in Ids : A[i] # NoObj}

\* the registry state g with the record i and the disk as in s
with_record(g, i, s) ==
    [a |-> [g.a EXCEPT ![i] = s.o], c |-> s.c, d |-> s.d, m |-> s.m]

refresh_one(g, i, L, O, P) ==
    with_record(g, i, update_status_from_process(
                        [o |-> g.a[i], c |-> g.c, d |-> g.d, m |-> g.m], L, O, P))

RECURSIVE refresh_from(_, _, _, _, _)
refresh_from(i, g, L, O, P) ==
    IF i > Left THEN g
    ELSE refresh_from(i + 1,
                      IF g.a[i] = NoObj THEN g ELSE refresh_one(g, i, L, O, P),
                      L, O, P)

\* AgentManager.list_all: update_status_from_process on every tracked record
list_all(g, L, O, P) == refresh_from(1, g, L, O, P)

\* AgentManager.list_running / list_completed after list_all
list_running(A) == {i \in Tracked(A) : A[i].status = RUNNING}

list_completed(A) == {i \in Tracked(A) : A[i].status # RUNNING}

\* completed.sort(key=completed_at or datetime.min): a stable sort, so
\* variant: a sort that puts the newest record first
older_mut(A, i, j) ==
    \/ A[i].completed_at > A[j].completed_at
    \/ A[i].completed_at = A[j].completed_at /\ i < j

\* records with equal keys keep their registry order
older(A, i, j) ==
    \/ A[i].completed_at < A[j].completed_at
    \/ A[i].completed_at = A[j].completed_at /\ i < j

\* the first n records of the set completed in the sorted order
oldest(A, completed, n) ==
    {i \in completed : Cardinality({j \in completed : older(A, j, i)}) < n}

\* the records _cleanup_old_agents removes: completed[: len - max_agents]
evicted(A, max_agents) ==
    IF Cardinality(list_completed(A)) > max_agents
    THEN oldest(A, list_completed(A), Cardinality(list_completed(A)) - max_agents)
    ELSE {}

\* shutil.rmtree(agent_dir) on the disk component f of dir, meta or logf
rmtree(f, S, empty) == [i \in Ids |-> IF i \in S THEN empty ELSE f[i]]

\* the registry state h without the records E: e is E, x holds the
\* objects that left the registry
remove_agents(h, E) ==
    [a |-> [i \in Ids |-> IF i \in E THEN NoObj ELSE h.a[i]],
     c |-> h.c,
     d |-> rmtree(h.d, E, FALSE),
     m |-> rmtree(h.m, E, NoMeta),
     e |-> E,
     x |-> [i \in Ids |-> IF i \in E THEN h.a[i] ELSE NoObj]]

\* the removal of _cleanup_old_agents on the refreshed registry state h
remove_oldest(h, max_agents) == remove_agents(h, evicted(h.a, max_agents))

\* AgentManager._cleanup_old_agents on the registry state g of a
\* coordinator that keeps max_agents completed records
cleanup_old_agents(g, L, O, P, max_agents) ==
    remove_oldest(list_all(g, L, O, P), max_agents)

(***************************************************************************)
(* Timestamps are only compared with each other, so a state keeps them as  *)
(* their ranks 1..k among the timestamps it holds.                         *)
(***************************************************************************)
Stamps(A, D, M) ==
    ({A[i].completed_at : i \in Tracked(A)}
       \cup {D[i].completed_at : i \in Tracked(D)}
       \cup {M[i].completed_at : i \in {j \in Ids : M[j] # NoMeta}}) \ {None}

Rank(T, t) == IF t = None THEN None ELSE Cardinality({u \in T : u <= t})

Ranked(F, T, empty) ==
    [i \in Ids |-> IF F[i] = empty THEN empty
                   ELSE [F[i] EXCEPT !.completed_at = Rank(T, @)]]

\* datetime.now() before the operation takes its first timestamp
Now == Cardinality(Stamps(agents, detached, meta))

CurrentG == [a |-> agents, c |-> Now, d |-> dir, m |-> meta]

\* the registry, the detached records and the disk after an operation
Commit(g, D) ==
    LET T == Stamps(g.a, D, g.m) IN
    /\ agents' = Ranked(g.a, T, NoObj)
    /\ detached' = Ranked(D, T, NoObj)
    /\ meta' = Ranked(g.m, T, NoMeta)
    /\ dir' = g.d

\* what the spawn(), stop() or restart that has just run returned: op is
\* "spawn", "stop" (a call that ran from its start), "stop_resumed" (a
\* call that ran on from its sleep) or "restart"; sig is the signal the
\* operation sent.  Idle once the caller has taken the result.
Ret(op, id, val, sig) == [op |-> op, id |-> id, val |-> val, sig |-> sig]
Idle == Ret("idle", 0, "ok", "none")

\* f[1] + ... + f[n]
RECURSIVE Total(_, _)
Total(f, n) == IF n = 0 THEN 0 ELSE f[n] + Total(f, n - 1)

\* an empty storage root, no coordinator state, no process
InitStore ==
    /\ agents = [i \in Ids |-> NoObj]
    /\ detached = [i \in Ids |-> NoObj]
    /\ stopping = [i \in Ids |-> 0]
    /\ stoppingDet = [i \in Ids |-> 0]
    /\ dir = [i \in Ids |-> FALSE]
    /\ meta = [i \in Ids |-> NoMeta]
    /\ logf = [i \in Ids |-> FALSE]
    /\ out = [i \in Ids |-> <<>>]
    /\ proc = [i \in Ids |-> NoProc]
    /\ nextId = 1

Init == InitStore /\ ret = Idle

(***************************************************************************)
(* The children: a running child appends a line to its log, or exits.      *)
(***************************************************************************)
WriteLine(i, raw) ==
    /\ ret = Idle
    /\ proc[i].st = "live"
    /\ logf[i]
    /\ Total([j \in Ids |-> Len(out[j])], Left) < MaxLog
    /\ out' = [out EXCEPT ![i] = Append(@, raw)]
    /\ UNCHANGED <<agents, detached, stopping, stoppingDet, dir, meta, logf,
                   proc, nextId, ret>>

Exit(i, code) ==
    /\ ret = Idle
    /\ proc[i].st = "live"
    /\ proc' = [proc EXCEPT ![i] = IF proc[i].child
                                   THEN [st |-> "zombie", code |-> code, child |-> TRUE]
                                   ELSE Gone([code |-> code])]
    /\ UNCHANGED <<agents, detached, stopping, stoppingDet, dir, meta, logf,
                   out, nextId, ret>>

(***************************************************************************)
(* AgentManager.get, list_all and the events property of a record.         *)
(***************************************************************************)
\* variant: a get that looks in memory only
loadable_mut(i) == FALSE

\* load_from_disk finds meta.json of the id
loadable(i) == dir[i] /\ meta[i] # NoMeta

\* get(agent_id) apart from what it returns
GetCall(i) ==
    /\ ret = Idle
    /\ IF agents[i] # NoObj
       THEN Commit(refresh_one(CurrentG, i, logf, out, proc), detached)
       ELSE IF loadable(i)
       THEN Commit(refresh_one([CurrentG EXCEPT !.a[i] = load_from_disk(meta[i])],
                               i, logf, out, proc), detached)
       ELSE UNCHANGED <<agents, detached, dir, meta>>
    /\ UNCHANGED <<stopping, stoppingDet, logf, out, proc, nextId>>

\* a get whose caller goes on at once
Get(i) == GetCall(i) /\ UNCHANGED ret

\* a get whose result the caller holds: the record, or None
GetObserved(i) ==
    /\ GetCall(i)
    /\ ret' = Ret("get", i, IF agents[i] # NoObj \/ loadable(i) THEN "found"
                            ELSE "not_found", "none")

ListAll ==
    /\ ret = Idle
    /\ Commit(list_all(CurrentG, logf, out, proc), detached)
    /\ UNCHANGED <<stopping, stoppingDet, logf, out, proc, nextId, ret>>

\* agent.events on a tracked record
ReadEvents(i) ==
    /\ ret = Idle
    /\ agents[i] # NoObj
    /\ LET r == read_new_events([o |-> agents[i], c |-> Now], logf, out) IN
       Commit([CurrentG EXCEPT !.a[i] = r.o], detached)
    /\ UNCHANGED <<stopping, stoppingDet, logf, out, proc, nextId, ret>>

(***************************************************************************)
(* AgentManager.spawn.  The request is valid, has an invalid mode string   *)
(* (rejected by resolve_mode_flags before anything else), or fails a later *)
(* validation (CLI not on PATH, bad cwd, unsafe flag in the prompt).       *)
(* fault is the step of the launch that the environment makes fail; early  *)
(* is the exit code of a child that has exited before the launch is rolled *)
(* back (by itself or of the SIGTERM), NoCode when it still runs.          *)
(***************************************************************************)
\* a spawn request: cli says whether the executable of the agent type is
\* on PATH, cwd is "none" (not given), "dir", "file" or "missing", mode is
\* "none" or the mode string, yolo is "none", "true", "false" or "notbool",
\* flag says whether _prompt_has_yolo_flag(prompt) holds
VALID_MODES == {"safe", "yolo"}
ModeStrings == {"none", "safe", "yolo", " Yolo", "unsafe"}
YoloValues == {"none", "true", "false", "notbool"}
CwdValues == {"none", "dir", "file", "missing"}
default_mode == "safe"

\* _normalize_mode_value: mode_value.strip().lower() when that is a valid
\* mode, else None
normalize_mode_value(mode_value) ==
    LET normalized == IF mode_value = " Yolo" THEN "yolo" ELSE mode_value IN
    IF mode_value # "none" /\ normalized \in VALID_MODES THEN normalized ELSE "none"

\* resolve_mode_flags: err when it raises ValueError, else the pair it returns
Resolved(err, mode) == [err |-> err, mode |-> mode, yolo |-> mode = "yolo"]
\* variant: a resolution in which the boolean flag wins over the mode string
resolve_mode_flags_mut(requested_mode, requested_yolo, default) ==
    IF normalize_mode_value(default) = "none" THEN Resolved(TRUE, "none")
    ELSE IF requested_yolo \in {"true", "false"}
    THEN Resolved(FALSE, IF requested_yolo = "true" THEN "yolo" ELSE "safe")
    ELSE IF requested_mode # "none"
    THEN IF normalize_mode_value(requested_mode) = "none" THEN Resolved(TRUE, "none")
         ELSE Resolved(FALSE, normalize_mode_value(requested_mode))
    ELSE IF requested_yolo # "none" THEN Resolved(TRUE, "none")
    ELSE Resolved(FALSE, normalize_mode_value(default))

resolve_mode_flags(requested_mode, requested_yolo, default) ==
    IF normalize_mode_value(default) = "none" THEN Resolved(TRUE, "none")
    ELSE IF requested_mode # "none"
    THEN IF normalize_mode_value(requested_mode) = "none" THEN Resolved(TRUE, "none")
         ELSE Resolved(FALSE, normalize_mode_value(requested_mode))
    ELSE IF requested_yolo # "none"
    THEN IF requested_yolo \notin {"true", "false"} THEN Resolved(TRUE, "none")
         ELSE Resolved(FALSE, IF requested_yolo = "true" THEN "yolo" ELSE "safe")
    ELSE Resolved(FALSE, normalize_mode_value(default))

\* the ValueError that resolve_mode_flags raises, "none" when it returns
resolve_error(requested_mode, requested_yolo, default) ==
    IF normalize_mode_value(default) = "none" THEN "invalid_default"
    ELSE IF requested_mode # "none"
    THEN IF normalize_mode_value(requested_mode) = "none" THEN "invalid_mode"
         ELSE "none"
    ELSE IF requested_yolo \notin {"none", "true", "false"} THEN "invalid_yolo"
    ELSE "none"

\* _default_mode_from_env: the first of AGENT_SWARM_MODE and
\* AGENT_SWARM_DEFAULT_MODE that holds a valid mode, else safe
default_mode_from_env(env_mode, env_default) ==
    IF normalize_mode_value(env_mode) # "none" THEN normalize_mode_value(env_mode)
    ELSE IF normalize_mode_value(env_default) # "none"
    THEN normalize_mode_value(env_default)
    ELSE "safe"

\* AgentManager.__init__: self._default_mode, "none" when it raises
resolved_default_mode(configured, env_mode, env_default) ==
    IF configured # "none" THEN normalize_mode_value(configured)
    ELSE default_mode_from_env(env_mode, env_default)

\* check_cli_available: the error it reports, "none" when the CLI is there
check_cli_available(typ, cli) ==
    IF typ \notin AgentTypes THEN "unknown_type"
    ELSE IF ~cli THEN "cli_missing" ELSE "none"

\* the error _build_command raises, "none" when it returns the command; no
\* command template holds "--yolo", so its second safety check never fires
build_command_error(typ, flag, yolo) ==
    IF typ \notin AgentTypes THEN "unknown_type"
    ELSE IF ~yolo /\ flag THEN "unsafe_prompt" ELSE "none"

\* the error spawn raises before it creates anything, in the order of its
\* checks, "none" when it goes on to launch; capped is the outcome of the
\* concurrency check
spawn_error(typ, req, default, capped) ==
    IF resolve_mode_flags(req.mode, req.yolo, default).err THEN "invalid_mode"
    ELSE IF capped THEN "cap"
    ELSE IF check_cli_available(typ, req.cli) # "none"
    THEN check_cli_available(typ, req.cli)
    ELSE IF req.cwd = "missing" THEN "cwd_missing"
    ELSE IF req.cwd = "file" THEN "cwd_not_dir"
    ELSE build_command_error(typ, req.flag,
                             resolve_mode_flags(req.mode, req.yolo, default).yolo)

\* a record that leaves _agents stays alive while a suspended stop() holds it
Detach(E, A) ==
    [i \in Ids |-> IF i \in E /\ stopping[i] > 0 THEN A[i] ELSE detached[i]]

\* variant: a rollback that forgets the directory
cleanup_partial_agent_mut(g, id) == [g EXCEPT !.a[id] = NoObj]

\* AgentManager._cleanup_partial_agent: the record leaves _agents and its
\* directory is removed
cleanup_partial_agent(g, id) ==
    [g EXCEPT !.a[id] = NoObj, !.d[id] = FALSE, !.m[id] = NoMeta]

\* variant: a check that admits one spawn too many
at_capacity_mut(A) == Cardinality(list_running(A)) > MaxConcurrent

\* the concurrency check of spawn on the refreshed registry
at_capacity(A) == Cardinality(list_running(A)) >= MaxConcurrent

\* variant: a rejection raised once the storage directory was made
SpawnRejected_mut(g, val) ==
    /\ Commit([g EXCEPT !.d = [i \in Ids |-> TRUE]], detached)
    /\ ret' = Ret("spawn", 0, val, "none")
    /\ UNCHANGED <<stopping, stoppingDet, logf, out, proc, nextId>>

\* spawn raises a validation error: nothing but the refresh of g happened
SpawnRejected(g, val) ==
    /\ Commit(g, detached)
    /\ ret' = Ret("spawn", 0, val, "none")
    /\ UNCHANGED <<stopping, stoppingDet, logf, out, proc, nextId>>

\* the launch failed: g1 is the registry state after the rollback, L the
\* log files before it, P the process table, r the result
SpawnRolledBack(g1, L, P, r) ==
    /\ Commit(g1, detached)
    /\ logf' = [i \in Ids |-> L[i] /\ g1.d[i]]
    /\ out' = rmtree(out, {i \in Ids : ~g1.d[i]}, <<>>)
    /\ proc' = P
    /\ ret' = r
    /\ UNCHANGED <<stopping, stoppingDet>>

\* the record id is tracked and g3 is the registry state after
\* _cleanup_old_agents; L2 and P2 are the log files and the process table
\* after the launch
SpawnTracked(g3, id, L2, P2) ==
    /\ Commit(g3, Detach(g3.e, g3.x))
    /\ stoppingDet' = [i \in Ids |-> IF i \in g3.e /\ stopping[i] > 0
                                     THEN stopping[i] ELSE stoppingDet[i]]
    /\ stopping' = [i \in Ids |-> IF i \in g3.e THEN 0 ELSE stopping[i]]
    /\ logf' = rmtree(L2, g3.e, FALSE)
    /\ out' = rmtree(out, g3.e \cup {id}, <<>>)
    /\ proc' = P2
    /\ ret' = Ret("spawn", id, "ok", "none")

\* the child of the launch in the process table P1
launched(P1, pid, early) ==
    [P1 EXCEPT ![pid] = IF early = NoCode
                       THEN [st |-> "live", code |-> 0, child |-> TRUE]
                       ELSE [st |-> "zombie", code |-> early, child |-> TRUE]]

\* spawn from the creation of the agent object on; g is the refreshed
\* registry state and P1 the process table as Popen leaves it
SpawnLaunch(g, agent, fault, early, P1) ==
    CASE fault = "mkdir" ->
         \* agent_dir.mkdir raises OSError: self._agents.pop(agent_id)
         /\ Commit([g EXCEPT !.a[agent.agent_id] = NoObj], detached)
         /\ ret' = Ret("spawn", agent.agent_id, "mkdir_failed", "none")
         /\ UNCHANGED <<stopping, stoppingDet, logf, out, proc>>
      [] fault = "popen" ->
         \* the directory is there; open(stdout_path) or Popen raises
         SpawnRolledBack(
            cleanup_partial_agent([g EXCEPT !.d[agent.agent_id] = TRUE],
                                  agent.agent_id),
            logf, P1, Ret("spawn", agent.agent_id, "popen_failed", "none"))
      [] fault = "save_meta" ->
         \* the child runs (or has exited already); save_meta raises:
         \* SIGTERM to its process group, _reap_process, then
         \* _cleanup_partial_agent
         SpawnRolledBack(
            cleanup_partial_agent([g EXCEPT !.d[agent.agent_id] = TRUE],
                                  agent.agent_id),
            [logf EXCEPT ![agent.agent_id] = TRUE],
            reap_proc(agent, launched(P1, agent.pid, early)),
            Ret("spawn", agent.agent_id, "meta_failed", "SIGTERM"))
      [] fault = "none" ->
         SpawnTracked(
            cleanup_old_agents(
               [a |-> [g.a EXCEPT ![agent.agent_id] = agent],
                c |-> g.c,
                d |-> [g.d EXCEPT ![agent.agent_id] = TRUE],
                m |-> [g.m EXCEPT ![agent.agent_id] = meta_of(agent)]],
               [logf EXCEPT ![agent.agent_id] = TRUE],
               [out EXCEPT ![agent.agent_id] = <<>>],      \* open(..., "w")
               launched(P1, agent.pid, NoCode), MaxAgents),
            agent.agent_id,
            [logf EXCEPT ![agent.agent_id] = TRUE],
            launched(P1, agent.pid, NoCode))

\* spawn from the concurrency check on; g is the registry state that
\* self.list_running() has refreshed, id is the value of str(uuid4())[:8]
\* and nextId the pid of the next process
SpawnAdmit(g, id, typ, req, fault, early) ==
    IF spawn_error(typ, req, default_mode, at_capacity(g.a)) # "none"
    THEN SpawnRejected(g, spawn_error(typ, req, default_mode, at_capacity(g.a)))
    ELSE /\ nextId <= MaxIds
         /\ nextId' = nextId + 1
         /\ SpawnLaunch(g, [NewAgent(id, typ) EXCEPT
                               !.prompt = req.prompt, !.cwd = req.cwd,
                               !.yolo = resolve_mode_flags(req.mode, req.yolo,
                                                           default_mode).yolo,
                               !.pid = nextId],
                        fault, early, popen_cleanup(proc))

\* AgentManager.spawn when uuid4 yields id
SpawnId(id, typ, req, fault, early) ==
    /\ ret = Idle
    /\ IF resolve_mode_flags(req.mode, req.yolo, default_mode).err
       THEN SpawnRejected(CurrentG, "invalid_mode")
       ELSE SpawnAdmit(list_all(CurrentG, logf, out, proc), id, typ, req, fault, early)

\* AgentManager.spawn when uuid4 yields an id that no record has
Spawn(typ, req, fault, early) == SpawnId(nextId, typ, req, fault, early)

\* the spawn calls of the model: a request that passes every check, one
\* that fails every check, one that fails every check but the mode's, and
\* one whose prompt alone is refused; the parameters that no branch reads
\* are fixed
GoodRequest ==
    [cli |-> TRUE, prompt |-> "fix the bug", cwd |-> "none", mode |-> "none",
     yolo |-> "none", flag |-> FALSE]
BadRequest ==
    [cli |-> FALSE, prompt |-> "fix --yolo", cwd |-> "missing", mode |-> "none",
     yolo |-> "none", flag |-> TRUE]

SpawnCalls ==
    ({"nosuch"} \X {BadRequest, [BadRequest EXCEPT !.mode = "unsafe"]}
                \X {"none"} \X {NoCode})
      \cup ({"cursor"} \X {[GoodRequest EXCEPT !.prompt = "fix --yolo", !.flag = TRUE]} \X {"none"} \X {NoCode})
      \cup (SpawnTypes \X {GoodRequest} \X {"none"} \X {NoCode})
      \cup ({"cursor"} \X {GoodRequest} \X {"mkdir", "popen"} \X {NoCode})
      \cup ({"cursor"} \X {GoodRequest} \X {"save_meta"} \X ({NoCode} \cup ExitCodes))

(***************************************************************************)
(* AgentManager.stop.  StopBegin runs the call up to asyncio.sleep(2), or  *)
(* to its end when it does not sleep; StopEnd resumes a suspended call.    *)
(***************************************************************************)
\* os.killpg(os.getpgid(pid), SIGKILL): the process dies, a child of the
\* coordinator stays as a zombie until it is waited for
sigkill(o, P) ==
    IF P[o.pid].st = "live"
    THEN [P EXCEPT ![o.pid] = IF P[o.pid].child
                               THEN [st |-> "zombie", code |-> 1, child |-> TRUE]
                               ELSE Gone([code |-> 1])]
    ELSE P

\* variant: an end of stop() that takes no completion timestamp
stop_finish_mut(o, c) == [o EXCEPT !.status = STOPPED]

\* the end of stop(): status STOPPED and the completion timestamp
stop_finish(o, c) == [o EXCEPT !.status = STOPPED, !.completed_at = c + 1]

\* variant: a test that looks at the pid only
stoppable_mut(o) == o.pid # None

\* the test of stop() on the record it found: agent.pid and RUNNING
stoppable(o) == o.pid # None /\ o.status = RUNNING

StopBegin(i) ==
    LET o == agents[i] IN
    /\ ret = Idle
    /\ IF o = NoObj \/ ~stoppable(o)
       THEN /\ ret' = Ret("stop", i, "false", "none")
            /\ UNCHANGED <<agents, detached, stopping, stoppingDet, dir, meta,
                           logf, out, proc, nextId>>
       ELSE IF proc[o.pid].st \in {"live", "zombie"}
       THEN \* SIGTERM sent to the process group, which may die of it (Exit)
            \* or not; await asyncio.sleep(2)
            /\ Total(stopping, Left) + Total(stoppingDet, Left) < MaxStops
            /\ stopping' = [stopping EXCEPT ![i] = @ + 1]
            /\ UNCHANGED <<agents, detached, stoppingDet, dir, meta, logf, out,
                           proc, nextId, ret>>
       ELSE \* os.getpgid raises ProcessLookupError: no sleep
            /\ Commit([a |-> [agents EXCEPT ![i] = stop_finish(o, Now)],
                       c |-> Now + 1,
                       d |-> [dir EXCEPT ![i] = TRUE],
                       m |-> [meta EXCEPT ![i] = meta_of(stop_finish(o, Now))]],
                      detached)
            /\ proc' = reap_proc(o, proc)
            /\ ret' = Ret("stop", i, "true", "none")
            /\ UNCHANGED <<stopping, stoppingDet, logf, out, nextId>>

\* a suspended call resumes; the record it holds is agents[i], or
\* detached[i] when the record has left the registry meanwhile.  killed
\* tells whether a child that gets SIGKILL has died of it by the time
\* _reap_process runs; if not, it dies right after and stays a zombie.
StopEnd(i, killed) ==
    LET det == stoppingDet[i] > 0
        o == IF det THEN detached[i] ELSE agents[i]
        P1 == IF is_process_alive(o, proc) THEN sigkill(o, proc) ELSE proc
        o2 == stop_finish(o, Now)
    IN
    /\ ret = Idle
    /\ stopping[i] > 0 \/ stoppingDet[i] > 0
    /\ killed \/ (proc[o.pid].st = "live" /\ proc[o.pid].child)
    /\ IF det
       THEN /\ stoppingDet' = [stoppingDet EXCEPT ![i] = @ - 1]
            /\ Commit([CurrentG EXCEPT !.d[i] = TRUE, !.m[i] = meta_of(o2)],
                      [detached EXCEPT ![i] = IF stoppingDet[i] = 1 THEN NoObj
                                              ELSE o2])
            /\ UNCHANGED stopping
       ELSE /\ stopping' = [stopping EXCEPT ![i] = @ - 1]
            /\ Commit([CurrentG EXCEPT !.a[i] = o2, !.d[i] = TRUE,
                                       !.m[i] = meta_of(o2)], detached)
            /\ UNCHANGED stoppingDet
    /\ proc' = IF killed THEN reap_proc(o, P1) ELSE P1
    /\ ret' = Ret("stop_resumed", i, "true",
                  IF is_process_alive(o, proc) THEN "SIGKILL" ELSE "none")
    /\ UNCHANGED <<logf, out, nextId>>

(***************************************************************************)
(* The coordinator exits and a new one starts on the same storage root:    *)
(* AgentManager.__init__ and _load_existing_agents.  The children of the   *)
(* old coordinator are no children of the new one.  cutoff is the latest   *)
(* completion timestamp that is older than cleanup_age_days, filter is     *)
(* filter_by_cwd ("none" when it is not configured).                       *)
(***************************************************************************)
orphaned(P) ==
    [i \in Ids |-> IF P[i].st = "zombie" THEN Gone(P[i])
                   ELSE [P[i] EXCEPT !.child = FALSE]]

\* variant: a start that loads a record whatever its cwd
skipped_by_filter_mut(agent, filter) == FALSE

\* the cwd filter of _load_existing_agents skips the record
skipped_by_filter(agent, filter) == filter # "none" /\ agent.cwd # filter

\* the record is older than the retention window
too_old(agent, cutoff) == agent.completed_at # None /\ agent.completed_at <= cutoff

\* the loop of _load_existing_agents from the directory i on; w is the
\* pair [cutoff, filter]
RECURSIVE load_from(_, _, _, _, _, _)
load_from(i, g, w, L, O, P) ==
    IF i > Left THEN g
    ELSE IF ~(g.d[i] /\ g.m[i] # NoMeta) THEN load_from(i + 1, g, w, L, O, P)
    ELSE IF too_old(load_from_disk(g.m[i]), w.cutoff)
    THEN load_from(i + 1, [g EXCEPT !.d[i] = FALSE, !.m[i] = NoMeta], w, L, O, P)
    ELSE IF skipped_by_filter(load_from_disk(g.m[i]), w.filter)
    THEN load_from(i + 1, g, w, L, O, P)
    ELSE load_from(i + 1,
                   refresh_one([g EXCEPT !.a[i] = load_from_disk(g.m[i])],
                               i, L, O, P),
                   w, L, O, P)

load_existing_agents(cutoff, filter, P) ==
    load_from(1, [a |-> [i \in Ids |-> NoObj],
                  c |-> Cardinality(Stamps([i \in Ids |-> NoObj],
                                           [i \in Ids |-> NoObj], meta)),
                  d |-> dir, m |-> meta],
              [cutoff |-> cutoff, filter |-> filter], logf, out, P)

\* the new coordinator with the registry state g it has loaded; r is what
\* its caller keeps of the start
Restarted(g, P, r) ==
    /\ Commit(g, [i \in Ids |-> NoObj])
    /\ logf' = [i \in Ids |-> logf[i] /\ g.d[i]]
    /\ proc' = P
    /\ stopping' = [i \in Ids |-> 0]
    /\ stoppingDet' = [i \in Ids |-> 0]
    /\ out' = rmtree(out, {i \in Ids : ~g.d[i]}, <<>>)
    /\ ret' = r
    /\ UNCHANGED nextId

Restart(cutoff, filter) ==
    /\ ret = Idle
    /\ Restarted(load_existing_agents(cutoff, filter, orphaned(proc)), orphaned(proc),
                 Ret("restart", 0, "ok", "none"))

\* a start whose retention cutoff and cwd filter are kept
RestartObserved(cutoff, filter) ==
    /\ ret = Idle
    /\ Restarted(load_existing_agents(cutoff, filter, orphaned(proc)), orphaned(proc),
                 Ret("restart", cutoff, filter, "none"))

\* the caller of spawn(), stop() or AgentManager() has its result
Return ==
    /\ ret # Idle
    /\ ret' = Idle
    /\ UNCHANGED <<agents, detached, stopping, stoppingDet, dir, meta, logf, out,
                   proc, nextId>>

\* the ids spawn hands out
SpawnedIds == 1..MaxIds

\* what the children with ids in S do
Children(S) ==
    \/ \E i \in S, raw \in RawLines : WriteLine(i, raw)
    \/ \E i \in S, code \in ExitCodes : Exit(i, code)

\* the calls on the coordinator, with ids in S, apart from get
Calls(S) ==
    \/ ListAll
    \/ \E i \in S : ReadEvents(i)
    \/ \E c \in SpawnCalls : Spawn(c[1], c[2], c[3], c[4])
    \/ \E i \in S : StopBegin(i)
    \/ \E i \in S, killed \in BOOLEAN : StopEnd(i, killed)
    \/ Return

Next ==
    \/ Children(SpawnedIds)
    \/ Calls(SpawnedIds)
    \/ \E i \in SpawnedIds : Get(i)
    \/ \E cutoff \in 0..Now : Restart(cutoff, "none")

Spec == Init /\ [][Next]_vars

(***************************************************************************)
(* The coordinator is killed inside AgentManager.spawn, after Popen has    *)
(* returned the child and before agent.save_meta() has written meta.json,  *)
(* and a new coordinator starts on the same storage root.  The directory   *)
(* and the log file of the agent are there, its metadata is not; the child *)
(* runs in its own session (start_new_session=True) and outlives the       *)
(* coordinator.                                                            *)
(***************************************************************************)
SpawnKilledAt(g, id, cutoff) ==
    LET L1 == [logf EXCEPT ![id] = TRUE]
        O1 == [out EXCEPT ![id] = <<>>]
        P1 == orphaned(launched(popen_cleanup(proc), nextId, NoCode))
        g2 == load_from(1, [a |-> [i \in Ids |-> NoObj],
                            c |-> Cardinality(Stamps([i \in Ids |-> NoObj],
                                                     [i \in Ids |-> NoObj], g.m)),
                            d |-> [g.d EXCEPT ![id] = TRUE], m |-> g.m],
                        [cutoff |-> cutoff, filter |-> "none"], L1, O1, P1)
    IN /\ Commit(g2, [i \in Ids |-> NoObj])
       /\ logf' = [i \in Ids |-> L1[i] /\ g2.d[i]]
       /\ out' = rmtree(O1, {i \in Ids : ~g2.d[i]}, <<>>)
       /\ proc' = P1
       /\ stopping' = [i \in Ids |-> 0]
       /\ stoppingDet' = [i \in Ids |-> 0]
       /\ nextId' = nextId + 1
       /\ ret' = Ret("spawn_killed", id, "ok", "none")

SpawnKilled(typ, req, cutoff) ==
    /\ ret = Idle
    /\ ~resolve_mode_flags(req.mode, req.yolo, default_mode).err
    /\ spawn_error(typ, req, default_mode,
                   at_capacity(list_all(CurrentG, logf, out, proc).a)) = "none"
    /\ nextId <= MaxIds
    /\ SpawnKilledAt(list_all(CurrentG, logf, out, proc), nextId, cutoff)

NextKilled ==
    \/ Next
    \/ \E cutoff \in 0..Now : SpawnKilled("cursor", GoodRequest, cutoff)

SpecKilled == Init /\ [][NextKilled]_vars

(***************************************************************************)
(* A coordinator on a storage root that holds the record of an agent that  *)
(* an earlier coordinator spawned in the directory "/w": the record is     *)
(* still Running with its process alive, or still Running with its        *)
(* process gone, or Completed.  The coordinator was started with a cwd     *)
(* filter that the record does not match, so it has not loaded it; later   *)
(* coordinators start with any filter.                                     *)
(***************************************************************************)
Filters == {"none", "/w", "/v"}

LeftAgent(status, completed_at) ==
    [NewAgent(Left, "cursor") EXCEPT !.cwd = "/w", !.pid = Left,
                                     !.status = status,
                                     !.completed_at = completed_at]

LeftRecords ==
    {[m |-> meta_of(LeftAgent(RUNNING, None)),
      p |-> [st |-> "live", code |-> 0, child |-> FALSE]],
     [m |-> meta_of(LeftAgent(RUNNING, None)), p |-> Gone([code |-> 1])],
     [m |-> meta_of(LeftAgent(COMPLETED, 1)), p |-> Gone([code |-> 0])]}

InitSeeded ==
    /\ agents = [i \in Ids |-> NoObj]
    /\ detached = [i \in Ids |-> NoObj]
    /\ stopping = [i \in Ids |-> 0]
    /\ stoppingDet = [i \in Ids |-> 0]
    /\ dir = [i \in Ids |-> i = Left]
    /\ logf = [i \in Ids |-> i = Left]
    /\ out = [i \in Ids |-> <<>>]
    /\ nextId = 1
    /\ ret = Idle
    /\ \E r \in LeftRecords :
          /\ meta = [i \in Ids |-> IF i = Left THEN r.m ELSE NoMeta]
          /\ proc = [i \in Ids |-> IF i = Left THEN r.p ELSE NoProc]

NextSeeded ==
    \/ Children(Ids)
    \/ Calls(Ids)
    \/ \E i \in Ids : GetObserved(i)
    \/ \E cutoff \in 0..Now, filter \in Filters : RestartObserved(cutoff, filter)

SpecSeeded == InitSeeded /\ [][NextSeeded]_vars

(***************************************************************************)
(* The id of a spawn is the first eight hexadecimal digits of a random     *)
(* uuid4, and spawn does not look whether a record has that id: it makes   *)
(* or finds the directory (mkdir(exist_ok=True)), opens stdout.log for     *)
(* writing and assigns _agents[agent_id].  Here uuid4 may yield the id of  *)
(* the record that an earlier coordinator left as well as an unused one.   *)
(* The coordinator does not stop or restart here.                          *)
(***************************************************************************)
\* the child of the tracked record i appends a line to the record's log
WriteOwn(i, raw) ==
    /\ ret = Idle
    /\ agents[i] # NoObj /\ agents[i].pid # None
    /\ proc[agents[i].pid].st = "live" /\ proc[agents[i].pid].child
    /\ logf[i]
    /\ Total([j \in Ids |-> Len(out[j])], Left) < MaxLog
    /\ out' = [out EXCEPT ![i] = Append(@, raw)]
    /\ UNCHANGED <<agents, detached, stopping, stoppingDet, dir, meta, logf,
                   proc, nextId, ret>>

NextCollide ==
    \/ \E raw \in RawLines : WriteLine(Left, raw)
    \/ \E i \in Ids, raw \in RawLines : WriteOwn(i, raw)
    \/ \E i \in Ids, code \in ExitCodes : Exit(i, code)
    \/ \E i \in Ids : Get(i)
    \/ ListAll
    \/ \E i \in Ids : ReadEvents(i)
    \/ \E id \in Ids, call \in SpawnCalls :
          SpawnId(id, call[1], call[2], call[3], call[4])
    \/ Return

SpecCollide == InitSeeded /\ [][NextCollide]_vars

(***************************************************************************)
(* _cleanup_old_agents on its own, as spawn calls it last and as the test  *)
(* suite calls it: the coordinator tracks any records, Running ones with   *)
(* a live or an exited process and completed ones with any completion      *)
(* times, and keeps at most ret.id completed records.                      *)
(***************************************************************************)
TrackedAgent(i, status, completed_at) ==
    [NewAgent(i, "cursor") EXCEPT !.pid = i, !.status = status,
                                  !.completed_at = completed_at]

\* what a slot of the registry holds: nothing, or a record and its process
Slots(i) ==
    {[o |-> NoObj, p |-> NoProc]}
      \cup {[o |-> TrackedAgent(i, RUNNING, None), p |-> p] :
               p \in {[st |-> "live", code |-> 0, child |-> TRUE], Gone([code |-> 0])}}
      \cup {[o |-> TrackedAgent(i, st, t), p |-> Gone([code |-> 0])] :
               st \in {COMPLETED, STOPPED}, t \in 1..Left}

InitEvict ==
    \E S \in [Ids -> UNION {Slots(i) : i \in Ids}] :
       /\ \A i \in Ids : S[i] \in Slots(i)
       /\ agents = [i \in Ids |-> S[i].o]
       /\ Stamps(agents, agents, [i \in Ids |-> NoMeta])
             = 1..Cardinality(Stamps(agents, agents, [i \in Ids |-> NoMeta]))
       /\ meta = [i \in Ids |-> IF S[i].o = NoObj THEN NoMeta ELSE meta_of(S[i].o)]
       /\ dir = [i \in Ids |-> S[i].o # NoObj]
       /\ logf = [i \in Ids |-> S[i].o # NoObj]
       /\ proc = [i \in Ids |-> S[i].p]
       /\ detached = [i \in Ids |-> NoObj]
       /\ stopping = [i \in Ids |-> 0]
       /\ stoppingDet = [i \in Ids |-> 0]
       /\ out = [i \in Ids |-> <<>>]
       /\ nextId = Left + 1
       /\ \E max_agents \in 0..(MaxAgents + 1) :
             ret = Ret("init", max_agents, "ok", "none")

\* g3 is the registry state after _cleanup_old_agents
Cleaned(g3, r) ==
    /\ Commit(g3, detached)
    /\ logf' = rmtree(logf, g3.e, FALSE)
    /\ out' = rmtree(out, g3.e, <<>>)
    /\ ret' = r
    /\ UNCHANGED <<stopping, stoppingDet, proc, nextId>>

CleanupOldAgents ==
    /\ ret.op = "init"
    /\ Cleaned(cleanup_old_agents(CurrentG, logf, out, proc, ret.id),
               Ret("cleanup", ret.id, "ok", "none"))

NextEvict == CleanupOldAgents \/ Return

SpecEvict == InitEvict /\ [][NextEvict]_vars

(***************************************************************************)
(* Spawn calls of every agent type that differ in prompt, working          *)
(* directory, mode string and yolo flag, on an empty store.                *)
(***************************************************************************)
\* requests whose command-line tool is installed and whose working
\* directory, if they name one, exists
PersistRequests ==
    {[cli |-> TRUE, prompt |-> p, cwd |-> c, mode |-> m, yolo |-> y,
      flag |-> (p = "fix --yolo")] :
        p \in {"fix the bug", "fix --yolo"}, c \in {"none", "dir"},
        m \in {"none", "yolo"}, y \in {"none", "true", "false"}}

NextPersist ==
    \/ \E typ \in AgentTypes, req \in PersistRequests :
           Spawn(typ, req, "none", NoCode)
    \/ \E i \in SpawnedIds, code \in ExitCodes : Exit(i, code)
    \/ Return

SpecPersist == Init /\ [][NextPersist]_vars

(***************************************************************************)
(* Mode resolution as a function of its inputs: the default_mode argument  *)
(* of the constructor, the two environment variables, and the mode string  *)
(* and yolo flag of a spawn call.                                          *)
(***************************************************************************)
ModeCall(configured, env_mode, env_default, mode, yolo, val, res, err) ==
    [op |-> "resolve", id |-> 0, val |-> val, sig |-> "none",
     configured |-> configured, env_mode |-> env_mode, env_default |-> env_default,
     mode |-> mode, yolo |-> yolo, res |-> res, err |-> err]

InitMode ==
    /\ InitStore
    /\ ret \in {ModeCall(configured, env_mode, env_default, mode, yolo, "pending",
                          Resolved(FALSE, "none"), "none") :
                   configured \in ModeStrings, env_mode \in ModeStrings,
                   env_default \in ModeStrings, mode \in ModeStrings,
                   yolo \in YoloValues}

\* AgentManager(default_mode=configured) raises
ConstructorRaises ==
    /\ ret.op = "resolve" /\ ret.val = "pending"
    /\ resolved_default_mode(ret.configured, ret.env_mode, ret.env_default) = "none"
    /\ ret' = [ret EXCEPT !.val = "done", !.err = "invalid_default"]
    /\ UNCHANGED <<agents, detached, stopping, stoppingDet, dir, meta, logf, out,
                   proc, nextId>>

\* the first statement of spawn(mode=ret.mode, yolo=ret.yolo)
ResolveMode ==
    /\ ret.op = "resolve" /\ ret.val = "pending"
    /\ resolved_default_mode(ret.configured, ret.env_mode, ret.env_default) # "none"
    /\ ret' = [ret EXCEPT
                 !.val = "done",
                 !.res = resolve_mode_flags(
                            ret.mode, ret.yolo,
                            resolved_default_mode(ret.configured, ret.env_mode,
                                                  ret.env_default)),
                 !.err = resolve_error(
                            ret.mode, ret.yolo,
                            resolved_default_mode(ret.configured, ret.env_mode,
                                                  ret.env_default))]
    /\ UNCHANGED <<agents, detached, stopping, stoppingDet, dir, meta, logf, out,
                   proc, nextId>>

NextMode == ConstructorRaises \/ ResolveMode

SpecMode == InitMode /\ [][NextMode]_vars

(***************************************************************************)
(* AgentManager._build_command as a function of the agent type, the prompt *)
(* and the resolved yolo flag.  A string is a sequence of characters, and  *)
(* a run of characters that no rule of the code looks into is one element: *)
(* "yolo", "Yolo" (yolo with an upper-case letter), "full-auto", "json"    *)
(* and the other words of the command templates are word characters        *)
(* throughout (full-auto from its first to its last character), " " is     *)
(* whitespace and "=" a character that is neither a word character nor     *)
(* "-" nor whitespace.                                                     *)
(***************************************************************************)
ScanChars == {"-", " ", "yolo", "Yolo", "="}
ArgChars == ScanChars \cup {"full-auto"}

Strings(chars, n) == UNION {[1..k -> chars] : k \in 0..n}

Flag(word) == <<"-", "-", word>>
PromptSlot == <<"{prompt}">>

\* AGENT_COMMANDS
AGENT_COMMANDS(typ) ==
    CASE typ = "codex" -> <<(<<"codex">>), <<"exec">>, PromptSlot, Flag("full-auto"),
                            Flag("json")>>
      [] typ = "cursor" -> <<(<<"cursor-agent">>), <<"-", "p">>, Flag("output-format"),
                             <<"stream-json">>, PromptSlot>>
      [] typ = "gemini" -> <<(<<"gemini">>), <<"-", "p">>, PromptSlot,
                             Flag("output-format"), <<"stream-json">>>>
      [] typ = "claude" -> <<(<<"claude">>), <<"-", "p">>, PromptSlot,
                             Flag("output-format"), <<"stream-json">>>>
      [] OTHER -> <<>>

\* str.lower() of a character
Lower(c) == IF c = "Yolo" THEN "yolo" ELSE c

\* variant: a scan that finds the flag only when nothing follows it
prompt_has_yolo_flag_mut(prompt) ==
    \E i, j \in 1..Len(prompt) :
       /\ i + 2 <= j
       /\ i = 1 \/ prompt[i - 1] = " "
       /\ prompt[i] = "-" /\ prompt[i + 1] = "-"
       /\ \A k \in (i + 2)..(j - 1) : prompt[k] = " "
       /\ Lower(prompt[j]) = "yolo"
       /\ j = Len(prompt)

\* AgentManager._prompt_has_yolo_flag:
\* re.search(r"(^|\s)--\s*yolo(\s|$|[^\w-])", prompt.lower())
prompt_has_yolo_flag(prompt) ==
    \E i, j \in 1..Len(prompt) :
       /\ i + 2 <= j
       /\ i = 1 \/ prompt[i - 1] = " "
       /\ prompt[i] = "-" /\ prompt[i + 1] = "-"
       /\ \A k \in (i + 2)..(j - 1) : prompt[k] = " "
       /\ Lower(prompt[j]) = "yolo"
       /\ j = Len(prompt) \/ prompt[j + 1] \in {" ", "="}

\* [part.replace("{prompt}", prompt) for part in cmd_template]
substituted(template, prompt) ==
    [k \in 1..Len(template) |-> IF template[k] = PromptSlot THEN prompt
                                 ELSE template[k]]

Parts(cmd) == {cmd[k] : k \in 1..Len(cmd)}

\* variant: the unsafe flag is added and the safe flag stays
apply_yolo_mode_mut(typ, cmd) ==
    IF typ = "codex" THEN Append(cmd, Flag("yolo")) ELSE cmd

\* AgentManager._apply_yolo_mode
apply_yolo_mode(typ, cmd) ==
    IF Flag("full-auto") \in Parts(cmd)
    THEN [k \in 1..Len(cmd) |-> IF cmd[k] = Flag("full-auto") THEN Flag("yolo")
                                 ELSE cmd[k]]
    ELSE IF typ = "codex" THEN Append(cmd, Flag("yolo"))
    ELSE cmd

\* AgentManager._build_command: err is the ValueError it raises, "none"
\* when it returns cmd
Built(err, cmd) == [err |-> err, cmd |-> cmd]
build_command(typ, prompt, yolo) ==
    IF AGENT_COMMANDS(typ) = <<>> THEN Built("unknown_type", <<>>)
    ELSE IF ~yolo /\ prompt_has_yolo_flag(prompt) THEN Built("unsafe_prompt", <<>>)
    ELSE IF yolo
    THEN Built("none", apply_yolo_mode(typ, substituted(AGENT_COMMANDS(typ), prompt)))
    ELSE IF Flag("yolo") \in Parts(substituted(AGENT_COMMANDS(typ), prompt))
    THEN Built("unsafe_command", <<>>)
    ELSE Built("none", substituted(AGENT_COMMANDS(typ), prompt))

BuildCall(typ, prompt, yolo, val, res) ==
    [op |-> "build", id |-> 0, val |-> val, sig |-> "none", typ |-> typ,
     prompt |-> prompt, yolo |-> yolo, res |-> res]

BuildCommand ==
    /\ ret.op = "build" /\ ret.val = "pending"
    /\ ret' = [ret EXCEPT !.val = "done",
                          !.res = build_command(ret.typ, ret.prompt, ret.yolo)]
    /\ UNCHANGED <<agents, detached, stopping, stoppingDet, dir, meta, logf, out,
                   proc, nextId>>

\* the prompts of a codex agent in safe mode
InitPrompt ==
    /\ InitStore
    /\ ret \in {BuildCall("codex", prompt, FALSE, "pending", Built("none", <<>>)) :
                   prompt \in Strings(ScanChars, MaxPrompt)}

NextPrompt == BuildCommand

SpecPrompt == InitPrompt /\ [][NextPrompt]_vars

\* every agent type, both modes
InitCommand ==
    /\ InitStore
    /\ ret \in {BuildCall(typ, prompt, yolo, "pending", Built("none", <<>>)) :
                   typ \in AgentTypes \cup {"nosuch"},
                   prompt \in Strings(ArgChars, MaxArg), yolo \in BOOLEAN}

NextCommand == BuildCommand

SpecCommand == InitCommand /\ [][NextCommand]_vars

(***************************************************************************)
(* parsers.normalize_events on the structure of a payload (normalize_events*)
(* above keeps the type and the status of two shapes of payload, which is  *)
(* all that the state of a record depends on).  A payload is what          *)
(* json.loads returned: a number, or an object with or without the keys    *)
(* "type" and "subtype" and with a nested value, inner, under the key that *)
(* the normalizer of its type reads ("message", "item", "usage", "stats"): *)
(* absent, null, or an object, which for "item" has the type item and for  *)
(* "message" has the key "content" absent, null, or a list of blocks.  A   *)
(* block is a text block with the text a, b or the empty text, a tool_use  *)
(* block of the tool T1 or T2, an object of another type, or a string.     *)
(***************************************************************************)
Payload(type, subtype, inner, item, content, blocks) ==
    [json |-> "object", type |-> type, subtype |-> subtype, inner |-> inner,
     item |-> item, content |-> content, blocks |-> blocks]

NumberPayload == [json |-> "number"]
NoRaw == [json |-> "none"]

TextBlocks == {"text:a", "text:b", "text:"}
ToolBlocks == {"tool:T1", "tool:T2"}
Blocks == TextBlocks \cup ToolBlocks \cup {"other", "notdict"}

PayloadTypes ==
    {"missing", "mystery", "system", "thinking", "assistant", "result",
     "tool_result", "thread.started", "turn.started", "item.completed",
     "turn.completed", "init", "message", "tool_call"}
ItemTypes == {"none", "agent_message", "command_execution", "tool_call"}

Payloads ==
    {NumberPayload}
      \cup {Payload("assistant", "none", "dict", "none", content, <<>>) :
               content \in {"absent", "null"}}
      \cup {Payload("assistant", "none", "dict", "none", "list", blocks) :
               blocks \in Strings(Blocks, MaxBlocks)}
      \cup {Payload(type, subtype, inner, "none", "absent", <<>>) :
               type \in PayloadTypes, subtype \in {"none", "init", "error"},
               inner \in {"absent", "null", "dict"}}
      \cup {Payload("item.completed", "none", "dict", item, "absent", <<>>) :
               item \in ItemTypes}

\* a canonical event: tool, content, status and raw where the event has
\* the key
CanonicalEvent(type, agent, tool, content, status, raw) ==
    [type |-> type, agent |-> agent, tool |-> tool, content |-> content,
     status |-> status, raw |-> raw]
Plain(type, agent) == CanonicalEvent(type, agent, "none", <<>>, "none", NoRaw)
Passthrough(agent, raw) ==
    CanonicalEvent(IF raw.type = "missing" THEN "unknown" ELSE raw.type, agent,
                   "none", <<>>, "none", raw)

\* what a normalizer does: it returns events, or an exception leaves it
Returned(events) == [raised |-> FALSE, events |-> events]
Raised == [raised |-> TRUE, events |-> <<>>]

block_text(block) ==
    IF block = "text:a" THEN <<"a">> ELSE IF block = "text:b" THEN <<"b">> ELSE <<>>
block_tool(block) == IF block = "tool:T1" THEN "T1" ELSE "T2"

\* the loop of _normalize_cursor over the content blocks: the tool_use
\* events, and the texts joined
RECURSIVE tool_use_events(_, _)
tool_use_events(agent, blocks) ==
    IF blocks = <<>> THEN <<>>
    ELSE IF Head(blocks) \in ToolBlocks
    THEN <<CanonicalEvent("tool_use", agent, block_tool(Head(blocks)), <<>>, "none",
                          NoRaw)>> \o tool_use_events(agent, Tail(blocks))
    ELSE tool_use_events(agent, Tail(blocks))

RECURSIVE text_content(_)
text_content(blocks) ==
    IF blocks = <<>> THEN <<>>
    ELSE block_text(Head(blocks)) \o text_content(Tail(blocks))

MessageEvent(agent, content) ==
    CanonicalEvent("message", agent, "none", content, "none", NoRaw)

\* the events of an assistant payload whose content is the list blocks
assistant_events(agent, blocks) ==
    IF text_content(blocks) # <<>>
    THEN Append(tool_use_events(agent, blocks),
                MessageEvent(agent, text_content(blocks)))
    ELSE IF tool_use_events(agent, blocks) # <<>>
    THEN tool_use_events(agent, blocks)
    ELSE <<MessageEvent(agent, <<>>)>>

\* parsers._normalize_cursor, with the agent name that _normalize_claude
\* sets afterwards
normalize_cursor_payload(agent, raw) ==
    IF raw.type = "system" /\ raw.subtype = "init" THEN Returned(<<Plain("init", agent)>>)
    ELSE IF raw.type = "thinking" THEN Returned(<<Plain("thinking", agent)>>)
    ELSE IF raw.type = "assistant"
    THEN IF raw.inner = "null" THEN Raised                 \* None.get
         ELSE IF raw.inner = "absent" \/ raw.content = "absent"
         THEN Returned(assistant_events(agent, <<>>))
         ELSE IF raw.content = "null" THEN Raised         \* for block in None
         ELSE IF "notdict" \in Parts(raw.blocks) THEN Raised   \* str.get
         ELSE Returned(assistant_events(agent, raw.blocks))
    ELSE IF raw.type = "result"
    THEN Returned(<<CanonicalEvent("result", agent, "none", <<>>,
                                   IF raw.subtype = "none" THEN "success"
                                   ELSE raw.subtype, NoRaw)>>)
    ELSE IF raw.type = "tool_result"
    THEN Returned(<<CanonicalEvent("tool_result", agent, "unknown", <<>>, "none",
                                   NoRaw)>>)
    ELSE Returned(<<Passthrough(agent, raw)>>)

\* parsers._normalize_codex
normalize_codex_payload(raw) ==
    IF raw.type = "thread.started" THEN Returned(<<Plain("init", "codex")>>)
    ELSE IF raw.type = "turn.started" THEN Returned(<<Plain("turn_start", "codex")>>)
    ELSE IF raw.type = "item.completed"
    THEN IF raw.inner = "null" THEN Raised                 \* None.get
         ELSE IF raw.inner = "dict" /\ raw.item = "agent_message"
         THEN Returned(<<MessageEvent("codex", <<>>)>>)
         ELSE IF raw.inner = "dict" /\ raw.item = "command_execution"
         THEN Returned(<<CanonicalEvent("bash", "codex", "command_execution", <<>>,
                                        "none", NoRaw)>>)
         ELSE IF raw.inner = "dict" /\ raw.item = "tool_call"
         THEN Returned(<<CanonicalEvent("tool_use", "codex", "unknown", <<>>, "none",
                                        NoRaw)>>)
         ELSE Returned(<<Passthrough("codex", raw)>>)
    ELSE IF raw.type = "turn.completed"
    THEN IF raw.inner = "null" THEN Raised                 \* None.get
         ELSE Returned(<<CanonicalEvent("result", "codex", "none", <<>>, "success",
                                        NoRaw)>>)
    ELSE Returned(<<Passthrough("codex", raw)>>)

\* parsers._normalize_gemini
normalize_gemini_payload(raw) ==
    IF raw.type = "init" THEN Returned(<<Plain("init", "gemini")>>)
    ELSE IF raw.type = "message" THEN Returned(<<MessageEvent("gemini", <<>>)>>)
    ELSE IF raw.type \in {"tool_call", "tool_use"}
    THEN Returned(<<CanonicalEvent("tool_use", "gemini", "unknown", <<>>, "none",
                                   NoRaw)>>)
    ELSE IF raw.type = "result"
    THEN IF raw.inner = "null" THEN Raised                 \* None.get
         ELSE Returned(<<CanonicalEvent("result", "gemini", "none", <<>>, "success",
                                        NoRaw)>>)
    ELSE Returned(<<Passthrough("gemini", raw)>>)

\* parsers.normalize_events: raw.get raises on a payload that is no object
normalize_payload(agent_type, raw) ==
    IF raw.json # "object" THEN Raised
    ELSE IF agent_type = "codex" THEN normalize_codex_payload(raw)
    ELSE IF agent_type = "cursor" THEN normalize_cursor_payload("cursor", raw)
    ELSE IF agent_type = "gemini" THEN normalize_gemini_payload(raw)
    ELSE IF agent_type = "claude" THEN normalize_cursor_payload("claude", raw)
    ELSE Returned(<<Passthrough(agent_type, raw)>>)

ParseCall(agent_type, raw, val, res) ==
    [op |-> "normalize", id |-> 0, val |-> val, sig |-> "none",
     agent_type |-> agent_type, raw |-> raw, res |-> res]

InitParse ==
    /\ InitStore
    /\ ret \in {ParseCall(agent_type, raw, "pending", Returned(<<>>)) :
                   agent_type \in AgentTypes \cup {"nosuch"}, raw \in Payloads}

Normalize ==
    /\ ret.op = "normalize" /\ ret.val = "pending"
    /\ ret' = [ret EXCEPT !.val = "done",
                          !.res = normalize_payload(ret.agent_type, ret.raw)]
    /\ UNCHANGED <<agents, detached, stopping, stoppingDet, dir, meta, logf, out,
                   proc, nextId>>

NextParse == Normalize

SpecParse == InitParse /\ [][NextParse]_vars

(***************************************************************************)
(* summarizer.summarize_events and get_delta as functions of the event     *)
(* sequence.  A canonical event is kept with the keys the summarizer       *)
(* reads; a key that the event does not have holds "".                     *)
(***************************************************************************)
SEvent(type, content, complete, path, tool, command, message) ==
    [type |-> type, content |-> content, complete |-> complete, path |-> path,
     tool |-> tool, command |-> command, message |-> message]

\* the events of the model: a complete and a partial message, a complete
\* message without content, file events, a tool invocation, a shell command
\* that redirects into a file, an error with and without a message, a raw
\* line that names an error, and an event that the summarizer only counts
SummaryEvents ==
    {SEvent("init", "", FALSE, "", "", "", ""),
     SEvent("message", "a", TRUE, "", "", "", ""),
     SEvent("message", "b", FALSE, "", "", "", ""),
     SEvent("message", "", TRUE, "", "", "", ""),
     SEvent("file_write", "", FALSE, "f", "", "", ""),
     SEvent("file_create", "", FALSE, "g", "", "", ""),
     SEvent("tool_use", "", FALSE, "", "T", "", ""),
     SEvent("bash", "", FALSE, "", "", "echo hi > out.txt", ""),
     SEvent("error", "", FALSE, "", "", "", "e"),
     SEvent("error", "", FALSE, "", "", "", ""),
     SEvent("raw", "fatal error", FALSE, "", "", "", "")}

EventSeqs == UNION {[1..n -> SummaryEvents] : n \in 0..MaxEvents}

NoMessage == "None"          \* Python's None for a message

\* the raw contents of the model in which _extract_error_from_raw_events
\* finds one of its keywords
ErrorLike == {"fatal error"}
RAW_WINDOW == 20             \* events[-20:]
TOOL_CALL_WINDOW == 5        \* [...][-5:]

\* seq[-n:]
LastN(seq, n) ==
    IF Len(seq) <= n THEN seq ELSE SubSeq(seq, Len(seq) - n + 1, Len(seq))

\* _extract_error_from_raw_events: the content of the latest raw event of
\* the window that names an error, None when there is none
extract_error_from_raw_events(events) ==
    LET window == LastN(events, RAW_WINDOW)
        hits == {n \in 1..Len(window) :
                    window[n].type = "raw" /\ window[n].content \in ErrorLike}
    IN IF hits = {} THEN NoMessage
       ELSE window[CHOOSE n \in hits : \A k \in hits : k <= n].content

\* _extract_file_ops_from_bash on the commands of the model: the pair of
\* the paths read and the paths written
extract_file_ops_from_bash(command) ==
    IF command = "echo hi > out.txt" THEN <<{}, {"out.txt"}>> ELSE <<{}, {}>>

\* A text is kept as its name.  The length of the texts of the model: the
\* text named t<n> has n characters, and a text cut to n characters is
\* named cut<n>, whatever it began with
TextLen(t) ==
    CASE t \in {"t200", "cut200"} -> 200
      [] t = "t201" -> 201
      [] t \in {"t500", "cut500"} -> 500
      [] t = "t501" -> 501
      [] t = "fatal error" -> 11
      [] t = "" -> 0
      [] OTHER -> 1

ERROR_CHARS == 500           \* len(error_msg) > 500

\* text[:max_len - 3] + "..." when the text is longer than max_len
Cut(t, max_len) ==
    IF TextLen(t) <= max_len THEN t
    ELSE IF max_len = 200 THEN "cut200" ELSE "cut500"

\* AgentSummary as summarize_events creates it
NewSummary(events) ==
    [files_modified |-> {}, files_created |-> {}, files_read |-> {},
     files_deleted |-> {},
     tools_used |-> {}, tool_call_count |-> 0, bash_commands |-> <<>>,
     errors |-> <<>>, warnings |-> <<>>,
     final_message |-> NoMessage, event_count |-> Len(events),
     last_activity |-> NoMessage]

\* the message an error event gives: its "message", else its "content",
\* else what the raw events of the summarized sequence tell
error_message(event, cache) ==
    IF event.message # "" THEN event.message
    ELSE IF event.content # "" THEN event.content
    ELSE extract_error_from_raw_events(cache)

\* the body of the loop of summarize_events for one event; cache is the
\* whole sequence that is being summarized
summarize_one(summary, event, cache) ==
    LET seen == [summary EXCEPT !.last_activity = event.type] IN
    IF event.type = "file_write"
    THEN IF event.path = "" THEN seen
         ELSE [seen EXCEPT !.files_modified = @ \cup {event.path},
                           !.tool_call_count = @ + 1]
    ELSE IF event.type = "file_create"
    THEN IF event.path = "" THEN seen
         ELSE [seen EXCEPT !.files_created = @ \cup {event.path},
                           !.tool_call_count = @ + 1]
    ELSE IF event.type = "file_read"
    THEN IF event.path = "" THEN seen
         ELSE [seen EXCEPT !.files_read = @ \cup {event.path},
                           !.tool_call_count = @ + 1]
    ELSE IF event.type = "file_delete"
    THEN IF event.path = "" THEN seen
         ELSE [seen EXCEPT !.files_deleted = @ \cup {event.path},
                           !.tool_call_count = @ + 1]
    ELSE IF event.type = "tool_use"
    THEN [seen EXCEPT !.tools_used = @ \cup {IF event.tool = "" THEN "unknown"
                                             ELSE event.tool},
                      !.tool_call_count = @ + 1]
    ELSE IF event.type = "bash"
    THEN IF event.command = ""
         THEN [seen EXCEPT !.tools_used = @ \cup {"bash"},
                           !.tool_call_count = @ + 1]
         ELSE [seen EXCEPT !.tools_used = @ \cup {"bash"},
                           !.bash_commands = Append(@, event.command),
                           !.files_read =
                               @ \cup extract_file_ops_from_bash(event.command)[1],
                           !.files_modified =
                               @ \cup extract_file_ops_from_bash(event.command)[2],
                           !.tool_call_count = @ + 1]
    ELSE IF event.type = "message"
    THEN IF event.content = "" THEN seen
         ELSE [seen EXCEPT !.final_message = event.content]
    ELSE IF event.type = "error"
    THEN IF error_message(event, cache) = NoMessage THEN seen
         ELSE [seen EXCEPT !.errors =
                             Append(@, Cut(error_message(event, cache), ERROR_CHARS))]
    ELSE IF event.type = "warning"
    THEN IF event.message = "" /\ event.content = "" THEN seen
         ELSE [seen EXCEPT !.warnings =
                             Append(@, IF event.message # "" THEN event.message
                                       ELSE event.content)]
    ELSE seen

RECURSIVE summarize_from(_, _, _)
summarize_from(summary, events, cache) ==
    IF events = <<>> THEN summary
    ELSE summarize_from(summarize_one(summary, Head(events), cache),
                        Tail(events), cache)

\* summarizer.summarize_events
summarize_events(events) == summarize_from(NewSummary(events), events, events)

\* the entry of new_tool_calls for an event: the pair of e.get("tool",
\* "unknown") and e.get("command", e.get("path", ""))
tool_call(e) ==
    <<IF e.tool = "" THEN "unknown" ELSE e.tool,
      IF e.command # "" THEN e.command ELSE e.path>>

RECURSIVE tool_calls(_)
tool_calls(events) ==
    IF events = <<>> THEN <<>>
    ELSE IF Head(events).type \in {"tool_use", "bash", "file_write"}
    THEN <<tool_call(Head(events))>> \o tool_calls(Tail(events))
    ELSE tool_calls(Tail(events))

\* events[since_event:] for a cursor that is not negative
Since(events, since_event) ==
    IF since_event >= Len(events) THEN <<>>
    ELSE SubSeq(events, since_event + 1, Len(events))

\* the dictionary get_delta returns when there is a new event, without
\* the agent_id, agent_type and status that it copies from its arguments
Changes(events, since_event, summary) ==
    [since_event |-> since_event,
     new_events_count |-> Len(Since(events, since_event)),
     current_event_count |-> since_event + Len(Since(events, since_event)),
     has_changes |-> TRUE,
     new_files_modified |-> summary.files_modified,
     new_files_created |-> summary.files_created,
     new_tool_calls |-> LastN(tool_calls(Since(events, since_event)),
                              TOOL_CALL_WINDOW),
     latest_message |-> summary.final_message,
     new_errors |-> summary.errors]

\* the dictionary get_delta returns when there is none, without the
\* agent_id and status that it copies from its arguments
NoChanges(since_event) ==
    [since_event |-> since_event, new_events_count |-> 0, has_changes |-> FALSE]

\* variant: a delta that summarizes the whole sequence
get_delta_mut(events, since_event) ==
    IF Since(events, since_event) = <<>> THEN NoChanges(since_event)
    ELSE Changes(events, since_event, summarize_events(events))

\* summarizer.get_delta
get_delta(events, since_event) ==
    IF Since(events, since_event) = <<>> THEN NoChanges(since_event)
    ELSE Changes(events, since_event,
                 summarize_events(Since(events, since_event)))

\* a call with its arguments and, once it has returned, its result
SummaryCall(val, events, since_event, res) ==
    [op |-> "summarizer", id |-> 0, val |-> val, sig |-> "none",
     events |-> events, since_event |-> since_event, res |-> res]

InitSummary ==
    /\ InitStore
    /\ ret \in {SummaryCall("pending", events, since_event, NoMessage) :
                   events \in EventSeqs, since_event \in 0..MaxEvents}

SummarizeEvents ==
    /\ ret.val = "pending"
    /\ ret' = [ret EXCEPT !.val = "summary", !.res = summarize_events(ret.events)]
    /\ UNCHANGED <<agents, detached, stopping, stoppingDet, dir, meta, logf, out,
                   proc, nextId>>

GetDelta ==
    /\ ret.val = "pending"
    /\ ret' = [ret EXCEPT !.val = "delta",
                          !.res = get_delta(ret.events, ret.since_event)]
    /\ UNCHANGED <<agents, detached, stopping, stoppingDet, dir, meta, logf, out,
                   proc, nextId>>

NextSummary == SummarizeEvents \/ GetDelta

SpecSummary == InitSummary /\ [][NextSummary]_vars

(***************************************************************************)
(* AgentSummary.to_dict on the summary of a stream of events that grows.   *)
(* The agent_id, agent_type, status and duration that every tier copies    *)
(* from the arguments are left out of the dictionaries.                    *)
(***************************************************************************)
BRIEF_FILES == 5             \* list(...)[:5]
STANDARD_ERRORS == 3         \* self.errors[:3]
DETAILED_COMMANDS == 10      \* self.bash_commands[-10:]
STANDARD_CHARS == 200        \* _truncate(self.final_message, 200)
DETAILED_CHARS == 500        \* _truncate(self.final_message, 500)

\* AgentSummary._truncate
truncate(text, max_len) ==
    IF text \in {NoMessage, ""} THEN NoMessage ELSE Cut(text, max_len)

\* list(files)[:n]: a set has no order that the program chooses, so any n
\* of its elements can be the first n
FirstOfSet(files, n) ==
    {F \in SUBSET files :
        Cardinality(F) = IF Cardinality(files) < n THEN Cardinality(files) ELSE n}

\* seq[:n]
FirstN(seq, n) == IF Len(seq) <= n THEN seq ELSE SubSeq(seq, 1, n)

\* variant: a detailed tier that lists the first commands, all of them
to_dict_mut(summary, detail_level, fm, fc) ==
    [detail_level |-> detail_level,
     files_modified |-> summary.files_modified,
     files_created |-> summary.files_created,
     files_read |-> summary.files_read,
     files_deleted |-> summary.files_deleted,
     tools_used |-> summary.tools_used,
     tool_call_count |-> summary.tool_call_count,
     bash_commands |-> summary.bash_commands,
     errors |-> summary.errors,
     warnings |-> summary.warnings,
     final_message |-> truncate(summary.final_message, DETAILED_CHARS),
     event_count |-> summary.event_count,
     last_activity |-> summary.last_activity]

\* AgentSummary.to_dict; fm and fc are the files that list(...)[:5] keeps
to_dict(summary, detail_level, fm, fc) ==
    IF detail_level = "brief"
    THEN [detail_level |-> detail_level,
          tool_call_count |-> summary.tool_call_count,
          last_activity |-> summary.last_activity,
          files_modified |-> fm,
          files_created |-> fc,
          has_errors |-> Len(summary.errors) > 0]
    ELSE IF detail_level = "standard"
    THEN [detail_level |-> detail_level,
          files_modified |-> summary.files_modified,
          files_created |-> summary.files_created,
          tools_used |-> summary.tools_used,
          tool_call_count |-> summary.tool_call_count,
          errors |-> FirstN(summary.errors, STANDARD_ERRORS),
          final_message |-> truncate(summary.final_message, STANDARD_CHARS)]
    ELSE [detail_level |-> detail_level,
          files_modified |-> summary.files_modified,
          files_created |-> summary.files_created,
          files_read |-> summary.files_read,
          files_deleted |-> summary.files_deleted,
          tools_used |-> summary.tools_used,
          tool_call_count |-> summary.tool_call_count,
          bash_commands |-> LastN(summary.bash_commands, DETAILED_COMMANDS),
          errors |-> summary.errors,
          warnings |-> summary.warnings,
          final_message |-> truncate(summary.final_message, DETAILED_CHARS),
          event_count |-> summary.event_count,
          last_activity |-> summary.last_activity]

DetailLevels == {"brief", "standard", "detailed"}

\* the paths and shell commands of a stream, named in the order in which
\* the stream first has them
StreamPaths == <<"f1", "f2", "f3", "f4", "f5", "f6">>
StreamCommands ==
    <<"c1", "c2", "c3", "c4", "c5", "c6", "c7", "c8", "c9", "c10", "c11", "c12">>

\* the paths an event of the stream can name next: the first one again or
\* one that files does not hold yet
NextPaths(files) ==
    {StreamPaths[1]}
      \cup (IF Cardinality(files) < Len(StreamPaths)
            THEN {StreamPaths[Cardinality(files) + 1]} ELSE {})

\* the events that can follow a stream with this summary: file events, a
\* shell command without a file idiom, an error and a warning with a
\* message, and a complete message that is short or long
StreamEvents(summary) ==
    {SEvent("file_write", "", FALSE, path, "", "", "") :
        path \in NextPaths(summary.files_modified)}
      \cup {SEvent("file_create", "", FALSE, path, "", "", "") :
               path \in NextPaths(summary.files_created)}
      \cup (IF Len(summary.bash_commands) < Len(StreamCommands)
            THEN {SEvent("bash", "", FALSE, "", "",
                         StreamCommands[Len(summary.bash_commands) + 1], "")}
            ELSE {})
      \cup {SEvent("error", "", FALSE, "", "", "", "e"),
            SEvent("warning", "", FALSE, "", "", "", "w"),
            SEvent("message", "a", TRUE, "", "", "", ""),
            SEvent("message", "t501", TRUE, "", "", "", "")}

\* the stream so far as its summary, and the dictionary of the last
\* to_dict call
StreamState(val, summary, res) ==
    [op |-> "to_dict", id |-> 0, val |-> val, sig |-> "none",
     summary |-> summary, res |-> res]

InitStream ==
    /\ InitStore
    /\ ret = StreamState("stream", NewSummary(<<>>), NoMessage)

\* one more event in the event cache of the agent: what one more pass of
\* the loop of summarize_events makes of the summary.  No event of the
\* stream makes the loop look at the other events.
AppendEvent(event) ==
    /\ ret.val = "stream"
    /\ ret.summary.event_count < MaxStream
    /\ ret' = [ret EXCEPT !.summary =
                 [summarize_one(ret.summary, event, <<>>)
                    EXCEPT !.event_count = ret.summary.event_count + 1]]
    /\ UNCHANGED <<agents, detached, stopping, stoppingDet, dir, meta, logf, out,
                   proc, nextId>>

\* summarize_events(...).to_dict(detail_level) on the stream so far
ToDict(detail_level) ==
    /\ ret.val = "stream"
    /\ \E fm \in FirstOfSet(ret.summary.files_modified, BRIEF_FILES),
          fc \in FirstOfSet(ret.summary.files_created, BRIEF_FILES) :
          ret' = [ret EXCEPT !.val = "dict",
                    !.res = to_dict(ret.summary, detail_level, fm, fc)]
    /\ UNCHANGED <<agents, detached, stopping, stoppingDet, dir, meta, logf, out,
                   proc, nextId>>

NextStream ==
    \/ \E event \in StreamEvents(ret.summary) : AppendEvent(event)
    \/ \E detail_level \in DetailLevels : ToDict(detail_level)

SpecStream == InitStream /\ [][NextStream]_vars

(***************************************************************************)
(* The log reader: one agent has been spawned and its child writes lines   *)
(* of every kind, payloads or not, while the coordinator reads, refreshes  *)
(* and restarts.                                                           *)
(***************************************************************************)
TailLines == RawLines \cup OddLines

InitTail ==
    /\ agents = [i \in Ids |-> IF i = 1 THEN [NewAgent(1, "cursor") EXCEPT !.pid = 1]
                                ELSE NoObj]
    /\ detached = [i \in Ids |-> NoObj]
    /\ stopping = [i \in Ids |-> 0]
    /\ stoppingDet = [i \in Ids |-> 0]
    /\ dir = [i \in Ids |-> i = 1]
    /\ meta = [i \in Ids |-> IF i = 1
                              THEN meta_of([NewAgent(1, "cursor") EXCEPT !.pid = 1])
                              ELSE NoMeta]
    /\ logf = [i \in Ids |-> i = 1]
    /\ out = [i \in Ids |-> <<>>]
    /\ proc = [i \in Ids |-> IF i = 1 THEN launched(proc_none, 1, NoCode)[1]
                              ELSE NoProc]
    /\ nextId = MaxIds + 1
    /\ ret = Idle

\* the child appends any line to its log
WriteAny(i, line) ==
    /\ ret = Idle
    /\ proc[i].st = "live"
    /\ logf[i]
    /\ Len(out[i]) < MaxTail
    /\ out' = [out EXCEPT ![i] = Append(@, line)]
    /\ UNCHANGED <<agents, detached, stopping, stoppingDet, dir, meta, logf,
                   proc, nextId, ret>>

\* a read of the events of a record during which opening or reading the
\* log raises OSError: the except clause of _read_new_events logs it, and
\* neither the offset nor the cache nor the status has been touched
ReadFault(i) ==
    /\ ret = Idle
    /\ agents[i] # NoObj
    /\ logf[i]
    /\ ret' = Ret("events", i, "ok", "ioerror")
    /\ UNCHANGED <<agents, detached, stopping, stoppingDet, dir, meta, logf,
                   out, proc, nextId>>

NextTail ==
    \/ \E i \in Ids, line \in TailLines : WriteAny(i, line)
    \/ \E i \in Ids : ReadFault(i)
    \/ \E i \in Ids, code \in ExitCodes : Exit(i, code)
    \/ \E i \in Ids : Get(i)
    \/ \E i \in Ids : ReadEvents(i)
    \/ \E cutoff \in 0..Now : Restart(cutoff, "none")
    \/ Return

SpecTail == InitTail /\ [][NextTail]_vars

(***************************************************************************)
(* The checks of spawn as a function of the call: every agent type,        *)
(* request, default mode and outcome of the concurrency check.             *)
(***************************************************************************)
Requests ==
    [cli : BOOLEAN, cwd : CwdValues, mode : ModeStrings, yolo : YoloValues,
     flag : BOOLEAN]

SpawnChecks(typ, req, default, capped, val) ==
    [op |-> "spawn_checks", id |-> 0, val |-> val, sig |-> "none", typ |-> typ,
     req |-> req, default |-> default, capped |-> capped]

InitChecks ==
    /\ InitStore
    /\ ret \in {SpawnChecks(typ, req, default, capped, "pending") :
                   typ \in AgentTypes \cup {"nosuch"}, req \in Requests,
                   default \in VALID_MODES, capped \in BOOLEAN}

RunSpawnChecks ==
    /\ ret.val = "pending"
    /\ ret' = [ret EXCEPT !.val = spawn_error(ret.typ, ret.req, ret.default,
                                              ret.capped)]
    /\ UNCHANGED <<agents, detached, stopping, stoppingDet, dir, meta, logf, out,
                   proc, nextId>>

NextChecks == RunSpawnChecks

SpecChecks == InitChecks /\ [][NextChecks]_vars

(***************************************************************************)
(* Properties.                                                             *)
(***************************************************************************)
\* the record a stop() call on i holds
HeldObj(i) == IF stoppingDet[i] > 0 THEN detached[i] ELSE agents[i]

\* the tracked records that are Running once spawn has refreshed them
RunningAfterRefresh == list_running(list_all(CurrentG, logf, out, proc).a)

\* the canonical completion events (result with status success or error)
\* that the log lines of a record of type typ stand for, in log order
RECURSIVE CompletionEvents(_, _)
CompletionEvents(typ, lines) ==
    IF lines = <<>> THEN <<>>
    ELSE SelectSeq(normalize_events(typ, Head(lines)),
                   LAMBDA e : e.type = "result" /\ e.status \in {"success", "error"})
           \o CompletionEvents(typ, Tail(lines))

\* the status the last completion event of the log gives
SignalledStatus(typ, lines) ==
    LET ev == CompletionEvents(typ, lines) IN
    IF ev[Len(ev)].status = "success" THEN COMPLETED ELSE FAILED

\* C1: once the status of a tracked record is Completed, Failed or Stopped,
\* no get, list, event read or stop call made from then on changes it.
C1_TerminalAbsorbing ==
    [][ret'.op \in {"idle", "stop"} =>
         \A i \in Ids :
            (agents[i] # NoObj /\ agents'[i] # NoObj /\ agents[i].status \in Terminal)
               => agents'[i].status = agents[i].status]_vars

\* C2: a spawn that reaches the concurrency check while max_concurrent
\* tracked records are Running after the refresh returns the cap error,
\* launches no process, creates no directory and adds no record.
C2_CapRejects ==
    [][(ret'.op = "spawn" /\ ret'.val # "invalid_mode"
          /\ Cardinality(RunningAfterRefresh) >= MaxConcurrent)
         => /\ ret'.val = "cap"
            /\ proc' = proc /\ dir' = dir /\ logf' = logf
            /\ Tracked(agents') = Tracked(agents)
            /\ nextId' = nextId]_vars

C2_Witness ==
    /\ ret.op = "spawn" /\ ret.val = "cap"
    /\ Cardinality(list_running(agents)) >= MaxConcurrent

\* C3: a spawn is rejected for the cap only while max_concurrent tracked
\* records have a process that still runs: a record whose process has
\* exited occupies no slot.
C3_ExitedFreesSlot ==
    [][(ret'.op = "spawn" /\ ret'.val = "cap")
         => Cardinality({i \in Tracked(agents) : proc[i].st = "live"})
              >= MaxConcurrent]_vars

C5_NoOrphan ==
    (ret.op = "spawn" /\ ret.val = "meta_failed") => proc[ret.id].st # "live"

\* C6: of two stop calls on a Running record only one performs the
\* transition: a call that finds the record already Stopped does not set
\* it Stopped again and does not report success.
C6_StopOnce ==
    [][\A i \in Ids :
         (ret'.op \in {"stop", "stop_resumed"} /\ ret'.id = i /\ ret'.val = "true")
            => HeldObj(i).status # STOPPED]_vars

\* C7: stop on an unknown id or on a record that is Stopped, Completed or
\* Failed returns false, sends no signal and changes nothing.
C7_StopNoop ==
    [][\A i \in Ids :
         (ret'.op = "stop" /\ ret'.id = i
            /\ (agents[i] = NoObj \/ agents[i].status \in Terminal))
            => /\ ret'.val = "false" /\ ret'.sig = "none"
               /\ UNCHANGED <<agents, detached, stopping, stoppingDet, dir, meta,
                              logf, out, proc, nextId>>]_vars

C7_Witness ==
    /\ ret.op = "stop" /\ ret.val = "false"
    /\ agents[ret.id] # NoObj /\ agents[ret.id].status \in Terminal

\* C8: stop on a tracked Running record never returns false, neither
\* when it returns at once (the process is gone already) nor when it
\* returns after its sleep; and every stop call that returns true leaves
\* the record Stopped with its completion timestamp set and that metadata
\* on disk.
C8_StopStops ==
    [][\A i \in Ids :
         /\ (ret'.op = "stop" /\ ret'.id = i /\ agents[i] # NoObj
               /\ agents[i].status = RUNNING)
              => ret'.val = "true"
         /\ (ret'.op = "stop_resumed" /\ ret'.id = i) => ret'.val = "true"
         /\ (ret'.op \in {"stop", "stop_resumed"} /\ ret'.id = i /\ ret'.val = "true")
              => /\ dir'[i] /\ meta'[i] # NoMeta
                 /\ meta'[i].status = STOPPED /\ meta'[i].completed_at # None
                 /\ stoppingDet[i] = 0
                      => /\ agents'[i].status = STOPPED
                         /\ agents'[i].completed_at # None
                         /\ meta'[i] = meta_of(agents'[i])]_vars

C8_Witness ==
    /\ ret.op = "stop" /\ ret.val = "true"
    /\ agents[ret.id].status = STOPPED /\ meta[ret.id].status = STOPPED

\* C9: a record whose process has exited without a completion event in
\* its log is Completed if the exit code is 0 and Failed if it is not.
C9_ExitCodeDecides ==
    \A i \in Tracked(agents) :
       (agents[i].status \in {COMPLETED, FAILED} /\ proc[i].st = "gone"
          /\ CompletionEvents(agents[i].agent_type, out[i]) = <<>>)
         => agents[i].status = IF proc[i].code = 0 THEN COMPLETED ELSE FAILED

ValidationErrors ==
    {"invalid_mode", "cap", "unknown_type", "cli_missing", "cwd_missing",
     "cwd_not_dir", "unsafe_prompt"}

\* C11 (as stated): a spawn that raises a validation error changes no
\* registry, disk or process state.
C11_NoSideEffects ==
    [][(ret'.op = "spawn" /\ ret'.val \in ValidationErrors)
         => UNCHANGED <<agents, detached, dir, meta, logf, out, proc, nextId>>]_vars

\* a record or metadata file apart from the value of its completion time,
\* which a state keeps as a rank
Untimed(r) ==
    IF r \in {NoObj, NoMeta} THEN r
    ELSE [r EXCEPT !.completed_at = IF @ = None THEN None ELSE 1]

\* C11 (amended): a spawn that raises a validation error creates no process
\* and no directory and adds or removes no record; with an invalid mode
\* nothing changes at all, and with any other error the only records and
\* metadata files that change are those of tracked records whose process
\* is no longer alive, which the status refresh before the concurrency
\* check reconciles and saves.
C11_ValidationOnlyRefreshes ==
    [][(ret'.op = "spawn" /\ ret'.val \in ValidationErrors)
         => /\ UNCHANGED <<dir, logf, out, proc, nextId>>
            /\ Tracked(agents') = Tracked(agents)
            /\ \A i \in Ids :
                  (Untimed(agents'[i]) # Untimed(agents[i])
                     \/ Untimed(meta'[i]) # Untimed(meta[i]))
                    => /\ ret'.val # "invalid_mode"
                       /\ agents[i] # NoObj
                       /\ ~is_process_alive(agents[i], proc)
                       /\ agents'[i].status # RUNNING
                       /\ meta'[i] = meta_of(agents'[i])]_vars

C11_Witness ==
    /\ ret.op = "spawn" /\ ret.val = "unsafe_prompt"
    /\ \E i \in Ids : agents[i] # NoObj /\ agents[i].status # RUNNING


\* C12: when the concurrency cap is not reached, the yolo flag is a
\* boolean or absent and one of the four preconditions fails, the error of
\* spawn is that of the first failing one in the order agent type, CLI on
\* PATH, cwd, mode.
C12_CheckOrder ==
    (ret.op = "spawn_checks" /\ ret.val # "pending" /\ ~ret.capped
       /\ ret.req.yolo # "notbool")
      => LET mode_error ==
                resolve_mode_flags(ret.req.mode, ret.req.yolo, ret.default).err
             first == IF check_cli_available(ret.typ, ret.req.cli) # "none"
                      THEN check_cli_available(ret.typ, ret.req.cli)
                      ELSE IF ret.req.cwd = "missing" THEN "cwd_missing"
                      ELSE IF ret.req.cwd = "file" THEN "cwd_not_dir"
                      ELSE IF mode_error THEN "invalid_mode" ELSE "none"
         IN first # "none" => ret.val = first

\* the events a read of agent.events on the tracked record i returns
EventsRead(i) ==
    read_new_events([o |-> agents[i], c |-> Now], logf, out).o.events_cache

\* the lines of the sequence that are not blank
NonBlank(lines) == SelectSeq(lines, LAMBDA l : l # BlankLine)

IsPrefix(u, v) == Len(u) <= Len(v) /\ SubSeq(v, 1, Len(u)) = u

\* C17: the event cache of a record holds at least one event for every
\* non-blank line of the log that its reader has advanced past, and a raw
\* event with the literal line for every such line that is not JSON.
C17_EveryLineAnEvent ==
    \A i \in Tracked(agents) :
       LET past == SubSeq(out[i], 1, agents[i].last_read_pos) IN
       /\ Len(agents[i].events_cache) >= Len(NonBlank(past))
       /\ \A k \in 1..Len(past) :
             past[k] = NotJson
               => \E n \in 1..Len(agents[i].events_cache) :
                     agents[i].events_cache[n] = RawEvent(past[k])

\* C18: what a read of the events of a record returns is a prefix of what
\* every later read of them returns.
C18_ReadsOnlyGrow ==
    [][\A i \in Ids :
         (agents[i] # NoObj /\ agents'[i] # NoObj)
           => IsPrefix(EventsRead(i), EventsRead(i)')]_vars

\* the lines of the sequence that are payloads or are not JSON: the lines
\* from which _read_new_events makes events when it processes them
Deliverable(lines) ==
    SelectSeq(lines, LAMBDA l : l \in RawLines \/ l = NotJson)

\* C27: log content that a fault kept from becoming events is delivered
\* by a later read: for every tracked record, a read of its events that
\* meets no fault (the log exists and no unread line of it makes the
\* processing raise) returns at least one event for every line of the log
\* that is a payload or is not JSON.
C27_LaterReadDelivers ==
    \A i \in Tracked(agents) :
       (/\ logf[i]
        /\ \A k \in (agents[i].last_read_pos + 1)..Len(out[i]) :
              out[i][k] # NonObject)
         => Len(EventsRead(i)) >= Len(Deliverable(out[i]))

\* C19: the read offset of a tracked record never decreases in a step of
\* the coordinator that is an event read, a status refresh, a spawn or a
\* stop call.
C19_OffsetMonotone ==
    [][\A i \in Ids :
         (agents[i] # NoObj /\ agents'[i] # NoObj /\ ret'.op # "restart")
           => agents'[i].last_read_pos >= agents[i].last_read_pos]_vars

C19_Witness ==
    \E i \in Tracked(agents) :
       /\ agents[i].last_read_pos > 0 /\ agents[i].status = STOPPED

\* the status of the tracked record i once the coordinator has looked at
\* its process, as spawn does before it cleans up
RefreshedStatus(i) ==
    list_all(CurrentG, logf, out, popen_cleanup(proc)).a[i].status

\* C13: a record that leaves the registry in a step of the running
\* coordinator, or whose directory is removed, is not Running: not after
\* the status refresh of that step when it is tracked, and not according
\* to its metadata when a starting coordinator removes it; a record that
\* stays is the same agent with the same process; and the record of a
\* successful spawn is tracked and Running when spawn returns.
C13_RunningNeverRemoved ==
    [][/\ \A i \in Ids :
            /\ (agents[i] # NoObj /\ agents'[i] = NoObj /\ ret'.op # "restart")
                  => RefreshedStatus(i) # RUNNING
            /\ (dir[i] /\ ~dir'[i])
                  => IF agents[i] # NoObj /\ ret'.op # "restart"
                     THEN RefreshedStatus(i) # RUNNING
                     ELSE meta[i] # NoMeta /\ meta[i].status # RUNNING
            /\ (agents[i] # NoObj /\ agents'[i] # NoObj)
                  => /\ agents'[i].agent_id = agents[i].agent_id
                     /\ agents'[i].pid = agents[i].pid
                     /\ agents'[i].cwd = agents[i].cwd
       /\ (ret'.op = "spawn" /\ ret'.val = "ok")
             => /\ agents'[ret'.id] # NoObj /\ dir'[ret'.id]
                /\ agents'[ret'.id].status = RUNNING]_vars

C16_GetAdopts ==
    [][\A i \in Ids :
         (ret'.op = "get" /\ ret'.id = i)
           => IF agents[i] # NoObj \/ (dir[i] /\ meta[i] # NoMeta)
              THEN /\ ret'.val = "found"
                   /\ agents'[i] # NoObj /\ agents'[i].agent_id = i
                   /\ agents[i] # NoObj => agents'[i].pid = agents[i].pid
                   /\ agents[i] = NoObj => agents'[i].pid = meta[i].pid
                   /\ agents'[i].status = RUNNING
                        => is_process_alive(agents'[i], proc)
              ELSE /\ ret'.val = "not_found"
                   /\ UNCHANGED <<agents, dir, meta>>]_vars

C16_Witness ==
    /\ ret.op = "get" /\ ret.val = "found" /\ ret.id = Left
    /\ agents[Left] # NoObj /\ agents[Left].status # RUNNING
    /\ \A i \in SpawnedIds : agents[i] = NoObj

\* C20: a successful spawn returns an id that no tracked record and no
\* stored record had when spawn was called.
C20_SpawnIdUnused ==
    [][(ret'.op = "spawn" /\ ret'.val = "ok")
         => \A i \in Ids :
               (agents[i] # NoObj \/ dir[i] \/ meta[i] # NoMeta) => ret'.id # i]_vars

\* the part of a delta that is made from the events: files, tool calls,
\* errors and latest message
Derived(res) ==
    [files_modified |-> res.new_files_modified,
     files_created |-> res.new_files_created,
     tool_calls |-> res.new_tool_calls,
     errors |-> res.new_errors,
     latest_message |-> res.latest_message]

\* that part as the events after the cursor alone give it
DerivedFrom(new) ==
    [files_modified |-> summarize_events(new).files_modified,
     files_created |-> summarize_events(new).files_created,
     tool_calls |-> LastN(tool_calls(new), TOOL_CALL_WINDOW),
     errors |-> summarize_events(new).errors,
     latest_message |-> summarize_events(new).final_message]

\* C29 as stated: for a cursor k from 0 to the number of events, the delta
\* has new_events_count equal to the number of events minus k,
\* current_event_count equal to the number of events, has_changes false
\* exactly when no event lies after k, and files, tool calls, errors and
\* latest message as the events after k alone give them.
C29_DeltaCountsAndSuffix ==
    (ret.val = "delta" /\ ret.since_event <= Len(ret.events))
      => /\ ret.res.new_events_count = Len(ret.events) - ret.since_event
         /\ ret.res.has_changes = (ret.since_event < Len(ret.events))
         /\ "current_event_count" \in DOMAIN ret.res
         /\ ret.res.current_event_count = Len(ret.events)
         /\ Derived(ret.res) = DerivedFrom(Since(ret.events, ret.since_event))

\* C29 amended: new_events_count is the number of events minus k and
\* has_changes is false exactly when no event lies after k; when an event
\* lies after k, current_event_count is the number of events and files,
\* tool calls, errors and latest message are as the events after k alone
\* give them; when none does, the delta holds the cursor, the count 0 and
\* has_changes only.
C29_DeltaOfSuffix ==
    (ret.val = "delta" /\ ret.since_event <= Len(ret.events))
      => /\ ret.res.new_events_count = Len(ret.events) - ret.since_event
         /\ ret.res.has_changes = (ret.since_event < Len(ret.events))
         /\ ret.res.since_event = ret.since_event
         /\ IF ret.since_event < Len(ret.events)
            THEN /\ ret.res.current_event_count = Len(ret.events)
                 /\ Derived(ret.res)
                      = DerivedFrom(Since(ret.events, ret.since_event))
            ELSE DOMAIN ret.res
                   = {"since_event", "new_events_count", "has_changes"}

\* a delta from a cursor inside a sequence whose events before the cursor
\* hold an error and a written file and whose events after it do not
C29_Witness ==
    /\ ret.val = "delta"
    /\ ret.since_event = 2 /\ Len(ret.events) = 3
    /\ ret.events[1].type = "error" /\ ret.events[1].message = "e"
    /\ ret.events[2].type = "file_write"
    /\ ret.events[3].type = "message" /\ ret.events[3].complete
    /\ ret.res.has_changes
    /\ ret.res.new_errors = <<>> /\ ret.res.new_files_modified = {}
    /\ ret.res.latest_message = "a"

\* the contents of the complete message events of a sequence that have a
\* content
CompleteMessages(events) ==
    SelectSeq(events, LAMBDA e : e.type = "message" /\ e.complete /\ e.content # "")

\* C30: the final message of a summary is the content of the latest
\* complete message event of the sequence that has a content, and None
\* when there is none; a partial message event never gives it.
C30_FinalMessageComplete ==
    ret.val = "summary"
      => ret.res.final_message
           = IF CompleteMessages(ret.events) = <<>> THEN NoMessage
             ELSE CompleteMessages(ret.events)[Len(CompleteMessages(ret.events))].content

\* the number of entries of the list a tier gives under a key; the lists
\* made from sets are kept as sets
SetKeys == {"files_modified", "files_created", "files_read", "files_deleted",
            "tools_used"}
ListKeys == {"bash_commands", "errors", "warnings"}

\* C31: whatever the stream, no list of a tier's dictionary has more
\* entries than the largest cap that to_dict applies to a list, and the
\* final message of the standard and the detailed tier has at most 200 and
\* 500 characters.
C31_TiersBounded ==
    ret.val = "dict"
      => /\ \A key \in SetKeys \cap DOMAIN ret.res :
               Cardinality(ret.res[key]) <= DETAILED_COMMANDS
         /\ \A key \in ListKeys \cap DOMAIN ret.res :
               Len(ret.res[key]) <= DETAILED_COMMANDS
         /\ ret.res.detail_level = "standard"
              => TextLen(ret.res.final_message) <= STANDARD_CHARS
         /\ ret.res.detail_level = "detailed"
              => TextLen(ret.res.final_message) <= DETAILED_CHARS

\* C32: the brief tier has no key for the tools used, the shell commands,
\* the errors, the warnings or the final message, and lists at most 5
\* modified and 5 created files, each of them a file of the summary; the
\* detailed tier lists the latest 10 shell commands of the summary, in
\* their order, or all of them when there are fewer.
C32_BriefAndCommandCaps ==
    ret.val = "dict"
      => /\ ret.res.detail_level = "brief"
              => /\ DOMAIN ret.res \cap (ListKeys \cup {"tools_used", "final_message"})
                      = {}
                 /\ Cardinality(ret.res.files_modified) <= BRIEF_FILES
                 /\ Cardinality(ret.res.files_created) <= BRIEF_FILES
                 /\ ret.res.files_modified \subseteq ret.summary.files_modified
                 /\ ret.res.files_created \subseteq ret.summary.files_created
         /\ ret.res.detail_level = "detailed"
              => LET shown == ret.res.bash_commands
                     all == ret.summary.bash_commands
                 IN /\ Len(shown) <= DETAILED_COMMANDS
                    /\ Len(shown) = IF Len(all) < DETAILED_COMMANDS THEN Len(all)
                                    ELSE DETAILED_COMMANDS
                    /\ \A k \in 1..Len(shown) :
                          shown[k] = all[Len(all) - Len(shown) + k]

\* the detailed tier of a stream with 11 shell commands
C32_Witness ==
    /\ ret.val = "dict"
    /\ ret.res.detail_level = "detailed"
    /\ Len(ret.summary.bash_commands) = DETAILED_COMMANDS + 1
    /\ Len(ret.res.bash_commands) = DETAILED_COMMANDS
    /\ ret.res.bash_commands[1] = "c2"

\* C33: when a call of stop resumes from its sleep and the record it holds
\* is tracked, its process has exited and is gone, and a refresh has
\* meanwhile made the record Completed or Failed, the call leaves the
\* status of the record as it is.
C33_StopKeepsTerminal ==
    [][\A i \in Ids :
         (/\ ret'.op = "stop_resumed" /\ ret'.id = i
          /\ stopping[i] > 0 /\ stoppingDet[i] = 0
          /\ agents[i] # NoObj
          /\ ~is_process_alive(agents[i], proc)
          /\ agents[i].status \in {COMPLETED, FAILED})
           => (agents'[i] # NoObj /\ agents'[i].status = agents[i].status)]_vars

\* C34: the process of a tracked record whose status is Completed, Failed
\* or Stopped no longer runs.
C34_TerminalMeansExited ==
    \A i \in Tracked(agents) :
       (agents[i].status \in Terminal /\ agents[i].pid # None)
         => proc[agents[i].pid].st # "live"

\* C35: the coordinator never tracks more Running records than
\* max_concurrent.
C35_RunningWithinCap ==
    Cardinality(list_running(agents)) <= MaxConcurrent

\* C36: when the coordinator is killed inside spawn and started again, the
\* child that the spawn has launched and that is alive has loadable metadata
\* in its directory and the new coordinator tracks it as a Running record.
C36_KilledSpawnRecoverable ==
    (ret.op = "spawn_killed" /\ proc[ret.id].st = "live")
      => /\ dir[ret.id]
         /\ meta[ret.id] # NoMeta
         /\ agents[ret.id] # NoObj
         /\ agents[ret.id].status = RUNNING

\* C37: the status in the metadata file of a tracked record is the status
\* of the record in memory.
C37_MetaStatusCurrent ==
    \A i \in Tracked(agents) :
       (dir[i] /\ meta[i] # NoMeta) => meta[i].status = agents[i].status

(***************************************************************************)
(* The log at the grain of the child's writes.  A child whose stdout is a  *)
(* file writes a line in pieces: the opening part of the JSON object, its  *)
(* closing part, and the newline.  The content of stdout.log is the        *)
(* sequence of the pieces written so far, and an offset counts pieces.     *)
(***************************************************************************)
MaxPieces == 6

Opening == "{\"type\":"
Newline == "\n"
ClosingOf(raw) ==
    IF raw = "assistant" THEN "\"assistant\"}"
    ELSE "\"result\", \"subtype\": \"error\"}"
Closings == {ClosingOf(raw) : raw \in RawLines}

\* new_content.strip().split("\n") with the strip and the skip of empty
\* lines in the loop: the non-empty lines of the pieces read, cur being
\* the line under construction
RECURSIVE split_lines(_, _, _)
split_lines(acc, cur, pieces) ==
    IF pieces = <<>> THEN (IF cur = <<>> THEN acc ELSE Append(acc, cur))
    ELSE IF Head(pieces) = Newline
    THEN split_lines(IF cur = <<>> THEN acc ELSE Append(acc, cur), <<>>,
                     Tail(pieces))
    ELSE split_lines(acc, Append(cur, Head(pieces)), Tail(pieces))

\* json.loads accepts the line: it is a whole object
is_json(line) == Len(line) = 2 /\ line[1] = Opening /\ line[2] \in Closings

\* the payload json.loads returns for a whole line
json_loads(line) == CHOOSE raw \in RawLines : ClosingOf(raw) = line[2]

\* the loop of _read_new_events over the lines of the pieces read: a whole
\* line gives its canonical events, a part of a line is rejected by
\* json.loads and gives a raw event with the part as content
RECURSIVE read_pieces(_, _)
read_pieces(oc, lines) ==
    IF lines = <<>> THEN oc
    ELSE IF is_json(Head(lines))
    THEN read_pieces(append_events(oc, normalize_events(oc.o.agent_type,
                                                        json_loads(Head(lines)))),
                     Tail(lines))
    ELSE read_pieces([oc EXCEPT !.o.events_cache =
                                   Append(@, RawEvent(Head(lines)[1]))],
                     Tail(lines))

\* AgentProcess._read_new_events on the content of stdout.log
read_new_content(o, content) ==
    read_pieces([o |-> [o EXCEPT !.last_read_pos = Len(content)], c |-> 0],
                split_lines(<<>>, <<>>,
                            SubSeq(content, o.last_read_pos + 1, Len(content)))).o

\* the pieces the child can write next
NextPieces(content) ==
    IF content = <<>> \/ content[Len(content)] = Newline THEN {Opening}
    ELSE IF content[Len(content)] = Opening THEN Closings
    ELSE {Newline}

InitPartial ==
    /\ InitStore
    /\ ret = [op |-> "tail", content |-> <<>>, o |-> NewAgent(1, "cursor")]

WritePiece(piece) ==
    /\ Len(ret.content) < MaxPieces
    /\ piece \in NextPieces(ret.content)
    /\ ret' = [ret EXCEPT !.content = Append(@, piece)]
    /\ UNCHANGED <<agents, detached, stopping, stoppingDet, dir, meta, logf,
                   out, proc, nextId>>

ReadPieces ==
    /\ ret' = [ret EXCEPT !.o = read_new_content(ret.o, ret.content)]
    /\ UNCHANGED <<agents, detached, stopping, stoppingDet, dir, meta, logf,
                   out, proc, nextId>>

NextPartial ==
    \/ \E piece \in Closings \cup {Opening, Newline} : WritePiece(piece)
    \/ ReadPieces

SpecPartial == InitPartial /\ [][NextPartial]_vars

\* C38: once the reader has read the log to its end, its cache is the
\* event sequence of one read of the same content from offset 0, whatever
\* the points at which it has read.
C38_CacheIsSingleRead ==
    ret.o.last_read_pos = Len(ret.content)
      => ret.o.events_cache
           = read_new_content(NewAgent(1, "cursor"), ret.content).events_cache

\* C39: a record is Running exactly when it has no completion timestamp,
\* in memory and in its metadata file.
C39_RunningIffNoCompletion ==
    /\ \A i \in Tracked(agents) :
          (agents[i].status = RUNNING) <=> (agents[i].completed_at = None)
    /\ \A i \in Ids :
          meta[i] # NoMeta
            => ((meta[i].status = RUNNING) <=> (meta[i].completed_at = None))

\* a record has left Running and its metadata file says so
C39_Witness ==
    \E i \in Tracked(agents) :
       /\ agents[i].status \in Terminal
       /\ agents[i].completed_at # None
       /\ meta[i] # NoMeta
       /\ meta[i].status \in Terminal
       /\ ret = Idle

\* C40: a command that is built has the caller's prompt, unchanged, as the
\* argument at the place of the prompt in the template of the agent type.
C40_PromptArgumentKept ==
    (ret.op = "build" /\ ret.val = "done" /\ ret.res.err = "none") =>
       \A k \in 1..Len(AGENT_COMMANDS(ret.typ)) :
          AGENT_COMMANDS(ret.typ)[k] = PromptSlot
            => (k <= Len(ret.res.cmd) /\ ret.res.cmd[k] = ret.prompt)

\* the fields of a record that C28 names
Persisted(o) ==
    [agent_id |-> o.agent_id, agent_type |-> o.agent_type, prompt |-> o.prompt,
     cwd |-> o.cwd, mode |-> IF o.yolo THEN "yolo" ELSE "safe", pid |-> o.pid,
     status |-> o.status]

\* C28: when spawn succeeds, the record it returns is tracked with status
\* running, carries the agent type, prompt and working directory of the
\* call, and its directory holds a metadata file whose id, agent type,
\* prompt, cwd, mode, pid and status are those of the record; a call that
\* gives neither a mode nor a yolo flag yields the mode "safe"; and the
\* record loaded from that metadata file has the same seven fields.
C28_SpawnPersists ==
    [][\A typ \in AgentTypes, req \in PersistRequests :
         (ret'.op = "spawn" /\ ret'.val = "ok" /\ Spawn(typ, req, "none", NoCode))
           => (/\ agents'[ret'.id] # NoObj
               /\ agents'[ret'.id].status = RUNNING
               /\ agents'[ret'.id].agent_type = typ
               /\ agents'[ret'.id].prompt = req.prompt
               /\ agents'[ret'.id].cwd = req.cwd
               /\ dir'[ret'.id]
               /\ meta'[ret'.id] # NoMeta
               /\ [agent_id |-> meta'[ret'.id].agent_id,
                   agent_type |-> meta'[ret'.id].agent_type,
                   prompt |-> meta'[ret'.id].prompt,
                   cwd |-> meta'[ret'.id].cwd,
                   mode |-> meta'[ret'.id].mode,
                   pid |-> meta'[ret'.id].pid,
                   status |-> meta'[ret'.id].status] = Persisted(agents'[ret'.id])
               /\ ((req.mode = "none" /\ req.yolo = "none")
                     => meta'[ret'.id].mode = "safe")
               /\ Persisted(load_from_disk(meta'[ret'.id]))
                     = Persisted(agents'[ret'.id]))]_vars

\* a spawn in yolo mode with a working directory has succeeded
C28_Witness ==
    /\ ret.op = "spawn" /\ ret.val = "ok"
    /\ agents[ret.id] # NoObj
    /\ agents[ret.id].yolo /\ agents[ret.id].cwd = "dir"
    /\ agents[ret.id].prompt = "fix --yolo"
    /\ meta[ret.id].mode = "yolo"

\* the registry once list_completed has refreshed it
Refreshed == list_all(CurrentG, logf, out, proc).a

\* C14: after _cleanup_old_agents, the last step of a successful spawn,
\* the coordinator tracks at most max_agents records that are not Running;
\* a record that it evicted was not Running, has left the registry and has
\* no directory, metadata or log; no record that it kept, Running or not,
\* lost its directory; and no completed record that it kept has an
\* earlier completion time than one that it evicted.
C14_EvictsOldest ==
    [][ret'.op = "cleanup" =>
         /\ Cardinality(list_completed(agents')) <= ret'.id
         /\ \A i \in Tracked(agents) :
               IF agents'[i] = NoObj
               THEN /\ Refreshed[i].status # RUNNING
                    /\ ~dir'[i] /\ meta'[i] = NoMeta /\ ~logf'[i]
               ELSE /\ dir'[i] /\ meta'[i] # NoMeta /\ logf'[i]
                    /\ agents'[i].status = Refreshed[i].status
         /\ \A i, j \in Tracked(agents) :
               (agents'[i] = NoObj /\ agents'[j] # NoObj
                  /\ Refreshed[j].status # RUNNING)
                 => Refreshed[i].completed_at <= Refreshed[j].completed_at]_vars

C14_Witness ==
    /\ ret.op = "cleanup" /\ ret.id = 1
    /\ \E i, j \in Ids :
          /\ agents[i] = NoObj /\ ~dir[i] /\ proc[i].st = "gone"
          /\ agents[j] # NoObj /\ agents[j].status # RUNNING /\ dir[j]

\* the mode string names a mode once stripped and lower-cased
Recognized(mode) == mode \in {"safe", "yolo", " Yolo"}
ModeOf(mode) == IF mode = "safe" THEN "safe" ELSE "yolo"

\* C21: when the coordinator could be constructed, a recognized mode
\* string decides the mode whatever the flag; without a mode string a
\* boolean flag decides it whatever the default; without either the
\* default decides, which is safe when neither the constructor argument
\* nor the environment names a mode; an unrecognized mode string is the
\* invalid-mode error, which is the error spawn raises for every agent
\* type, request and cap outcome.
C21_ModePrecedence ==
    (ret.val = "done" /\ ret.err # "invalid_default") =>
       /\ Recognized(ret.mode)
            => /\ ~ret.res.err /\ ret.res.mode = ModeOf(ret.mode)
               /\ ret.res.yolo = (ModeOf(ret.mode) = "yolo")
       /\ (ret.mode = "none" /\ ret.yolo \in {"true", "false"})
            => /\ ~ret.res.err
               /\ ret.res.yolo = (ret.yolo = "true")
               /\ ret.res.mode = IF ret.yolo = "true" THEN "yolo" ELSE "safe"
       /\ (ret.mode = "none" /\ ret.yolo = "none")
            => /\ ~ret.res.err
               /\ (ret.configured = "none" /\ ret.env_mode = "none"
                     /\ ret.env_default = "none") => ret.res.mode = "safe"
               /\ Recognized(ret.configured) => ret.res.mode = ModeOf(ret.configured)
               /\ (ret.configured = "none" /\ Recognized(ret.env_mode))
                     => ret.res.mode = ModeOf(ret.env_mode)
       /\ (ret.mode # "none" /\ ~Recognized(ret.mode))
            => /\ ret.res.err /\ ret.err = "invalid_mode"
               /\ \A typ \in AgentTypes \cup {"nosuch"}, req \in Requests,
                     capped \in BOOLEAN :
                     req.mode = ret.mode
                       => spawn_error(typ, req, "safe", capped) = "invalid_mode"

C21_Witness ==
    /\ ret.op = "resolve" /\ ret.val = "done"
    /\ ret.mode = "safe" /\ ret.yolo = "true" /\ ret.configured = "yolo"
    /\ ret.res.mode = "safe" /\ ~ret.res.yolo

\* the prompt holds the characters of token, from the start or after
\* whitespace, up to the end or to whitespace
HasToken(prompt, token) ==
    \E i \in 1..Len(prompt) :
       /\ i + Len(token) - 1 <= Len(prompt)
       /\ SubSeq(prompt, i, i + Len(token) - 1) = token
       /\ i = 1 \/ prompt[i - 1] = " "
       /\ i + Len(token) - 1 = Len(prompt) \/ prompt[i + Len(token)] = " "

\* C22: in safe mode a prompt with the token --yolo, or with -- yolo, is
\* refused with the error that asks for the opt-in, wherever the token
\* stands; a prompt that holds the word yolo and no dash is accepted and
\* is the prompt argument of the command.
C22_FlagTokenRefused ==
    (ret.val = "done" /\ ~ret.yolo /\ ret.typ \in AgentTypes) =>
       /\ (HasToken(ret.prompt, <<"-", "-", "yolo">>)
              \/ HasToken(ret.prompt, <<"-", "-", " ", "yolo">>))
            => ret.res.err = "unsafe_prompt"
       /\ ("yolo" \in Parts(ret.prompt) /\ "-" \notin Parts(ret.prompt))
            => /\ ret.res.err = "none"
               /\ ret.prompt \in Parts(ret.res.cmd)

C22_Witness ==
    /\ ret.op = "build" /\ ret.val = "done"
    /\ ret.prompt = <<"yolo", " ", "-", "-", "yolo", " ", "yolo">>
    /\ ret.res.err = "unsafe_prompt"

\* C23: with the opt-in no prompt is refused, the prompts with the flag
\* token included, and the command of codex has --yolo among its
\* arguments and not --full-auto.
C23_OptInSwapsFlag ==
    (ret.val = "done" /\ ret.yolo /\ ret.typ \in AgentTypes) =>
       /\ ret.res.err = "none"
       /\ Len(ret.res.cmd) >= Len(AGENT_COMMANDS(ret.typ))
       /\ ret.typ = "codex"
            => /\ Flag("yolo") \in Parts(ret.res.cmd)
               /\ Flag("full-auto") \notin Parts(ret.res.cmd)

C23_Witness ==
    /\ ret.op = "build" /\ ret.val = "done" /\ ret.yolo /\ ret.typ = "codex"
    /\ ret.prompt = <<"yolo", " ", "-", "-", "yolo">>
    /\ ret.res.cmd = <<(<<"codex">>), <<"exec">>, ret.prompt, Flag("yolo"), Flag("json")>>

\* C24: with the opt-in the command of cursor, gemini and claude is the
\* template with the prompt in its place, and no argument of it is --yolo
\* unless the prompt itself is.
C24_OtherTypesUnmodified ==
    (ret.val = "done" /\ ret.yolo /\ ret.typ \in {"cursor", "gemini", "claude"}) =>
       /\ ret.res.err = "none"
       /\ ret.res.cmd = substituted(AGENT_COMMANDS(ret.typ), ret.prompt)
       /\ ret.prompt # Flag("yolo") => Flag("yolo") \notin Parts(ret.res.cmd)

\* the blocks of a payload that are tool invocations or texts with
\* something in them
Actions(blocks) ==
    SelectSeq(blocks, LAMBDA b : b \in ToolBlocks \cup {"text:a", "text:b"})

\* C25: an assistant payload of cursor or claude whose content is a list
\* of text, tool_use and other blocks, with a text or a tool invocation
\* among them, yields as many events as it has tool invocations and
\* non-empty texts.
C25_OneEventPerAction ==
    (ret.val = "done" /\ ret.agent_type \in {"cursor", "claude"}
       /\ ret.raw.json = "object" /\ ret.raw.type = "assistant"
       /\ ret.raw.content = "list" /\ "notdict" \notin Parts(ret.raw.blocks)
       /\ Actions(ret.raw.blocks) # <<>>)
      => /\ ~ret.res.raised
         /\ Len(ret.res.events) = Len(Actions(ret.raw.blocks))

\* the type of the payload is one that the normalizer of the agent type
\* has a branch for
KnownType(agent_type, type) ==
    CASE agent_type = "codex" ->
            type \in {"thread.started", "turn.started", "item.completed",
                       "turn.completed"}
      [] agent_type \in {"cursor", "claude"} ->
            type \in {"system", "thinking", "assistant", "result", "tool_result"}
      [] agent_type = "gemini" ->
            type \in {"init", "message", "tool_call", "tool_use", "result"}
      [] OTHER -> FALSE

\* C26: for every agent type and every payload that is a JSON object,
\* normalization raises nothing and returns at least one event, and for a
\* payload of a type it has no branch for, one event that carries the
\* payload.
C26_NeverThrows ==
    (ret.val = "done" /\ ret.raw.json = "object")
      => /\ ~ret.res.raised
         /\ Len(ret.res.events) >= 1
         /\ ~KnownType(ret.agent_type, ret.raw.type)
              => /\ Len(ret.res.events) = 1
                 /\ ret.res.events[1].raw = ret.raw

====
